---- MODULE Spec2Model ----
(***************************************************************************)
(* The "smart compiler" of GoDev (src/compiler-debian.js, class            *)
(* DebianCompiler, second definition starting at line 468): the file       *)
(* scanners, the project-type classifier, the toolchain guard, the build   *)
(* stage and the run prompt.                                               *)
(*                                                                         *)
(* A file name is a string; path.extname, toLowerCase, startsWith and      *)
(* includes are computed character by character.  A path is the sequence   *)
(* of names below the project root (<<>> is the root itself).  The file    *)
(* system is the set of its regular files; a directory exists when a file  *)
(* lies in or below it or when fs.ensureDir created it (fs.dirs).          *)
(***************************************************************************)
EXTENDS Naturals, Sequences, FiniteSets, TLC

VARIABLES
  fs,           \* the project tree: [files, dirs, rev, mkContent, pkg, serverish, denied]
  pc,           \* position of the invocation
  projectType,  \* compileProject's local projectType / compile's language
  result,       \* the value compile() returned
  threw,        \* TRUE when compile() let an exception escape
  events,       \* what the invocation did to the outside world, in order
  exitCode      \* the exit code of the process once it has ended, "none" before

vars == <<fs, pc, projectType, result, threw, events, exitCode>>

(***************************************************************************)
(* Strings                                                                 *)
(***************************************************************************)
UpperLetters == "ABCDEFGHIJKLMNOPQRSTUVWXYZ"
LowerLetters == "abcdefghijklmnopqrstuvwxyz"

charAt(s, i) == SubSeq(s, i, i)

UpperSet == {charAt(UpperLetters, i) : i \in 1..Len(UpperLetters)}
LowerOf ==
  [c \in UpperSet |-> charAt(LowerLetters, CHOOSE i \in 1..Len(UpperLetters) : charAt(UpperLetters, i) = c)]

lowerChar(c) == IF c \in UpperSet THEN LowerOf[c] ELSE c

RECURSIVE toLowerCase(_)
toLowerCase(s) == IF Len(s) = 0 THEN "" ELSE lowerChar(charAt(s, 1)) \o toLowerCase(Tail(s))

startsWith(s, p) == Len(s) >= Len(p) /\ SubSeq(s, 1, Len(p)) = p

includes(s, sub) ==
  Len(sub) = 0 \/ \E i \in 1..Len(s) : i + Len(sub) - 1 <= Len(s) /\ SubSeq(s, i, i + Len(sub) - 1) = sub

RECURSIVE lastDot(_, _)
lastDot(s, i) == IF i = 0 THEN 0 ELSE IF charAt(s, i) = "." THEN i ELSE lastDot(s, i - 1)

\* path.extname of a base name: from the last '.', unless that is the first character
extname(s) ==
  LET i == lastDot(s, Len(s)) IN IF i <= 1 THEN "" ELSE SubSeq(s, i, Len(s))

(***************************************************************************)
(* The file system as fs-extra shows it                                    *)
(***************************************************************************)
nullPath == <<>>
nullType == "null"

isPrefix(p, q) == Len(p) <= Len(q) /\ SubSeq(q, 1, Len(p)) = p

fileNames(f, dir) == {e.name : e \in {e2 \in f.files : e2.dir = dir}}
dirNames(f, dir) ==
  {e.dir[Len(dir) + 1] : e \in {e2 \in f.files : Len(e2.dir) > Len(dir) /\ isPrefix(dir, e2.dir)}}
    \cup {d[Len(dir) + 1] : d \in {d2 \in f.dirs : Len(d2) > Len(dir) /\ isPrefix(dir, d2)}}

\* The order in which a directory lists its entries: fs.readdir promises none,
\* so the tree carries a flag that reverses it.
DirentOrder ==
  << "Cargo.toml", "go.mod", "package.json", "requirements.txt", "setup.py", "pyproject.toml",
     "vite.config.js", "vite.config.ts", "Dockerfile", "docker-compose.yml",
     "Makefile", "makefile", "CMakeLists.txt", "configure", "autogen.sh",
     "node_modules", ".git", "build", "target", "dist", "obj", "src", "lib", "include", "source",
     "release", "deps", "bin", "out",
     "main.c", "UTIL.C", "util.cpp", "io.cc", "main.go", "lib.rs", "app.js", "App.jsx",
     "main.py", "index.html", "style.css", "README.md", "types.ts",
     "proj", "tool", "app", "main.o", "libproj.rlib", ".cargo-lock", "proj-rust",
     "__pycache__", ".pytest_cache",
     "server.js", "index.js", "main.js", "util.js", "client.js", "public",
     "util.py", "server.py", "app.py", "index.py", "remainder.py", "main.jsx" >>

RECURSIVE reverse(_)
reverse(s) == IF Len(s) = 0 THEN <<>> ELSE Append(reverse(Tail(s)), Head(s))

ReverseOrder == reverse(DirentOrder)

orderOf(f) == IF f.rev THEN ReverseOrder ELSE DirentOrder

\* fs.readdir: the names of the files and directories directly in dir
readdir(f, dir) ==
  LET present == fileNames(f, dir) \cup dirNames(f, dir)
      isPresent(n) == n \in present
  IN SelectSeq(orderOf(f), isPresent)

isDirectory(f, dir, item) == item \in dirNames(f, dir)
isFile(f, dir, item) == item \in fileNames(f, dir)
pathExists(f, p) ==
  \/ p = <<>>
  \/ \E e \in f.files : Append(e.dir, e.name) = p \/ isPrefix(p, e.dir)
  \/ \E d \in f.dirs : isPrefix(p, d)
seqIncludes(s, v) == \E i \in 1..Len(s) : s[i] = v

\* try { fs.readdir(dir) } catch { }: a directory that cannot be read gives nothing to loop over
listing(f, dir) == IF dir \in f.denied THEN <<>> ELSE readdir(f, dir)
\* fs.stat(fullPath) throws for a file that cannot be accessed
statFails(f, p) == p \in f.denied /\ \E e \in f.files : Append(e.dir, e.name) = p

(***************************************************************************)
(* FileScanner                                                             *)
(***************************************************************************)
findFileSkips(file) ==
  startsWith(file, ".") \/ file = "node_modules" \/ file = "build" \/ file = "target" \/ file = "dist"

RECURSIVE depthFirstInEntries(_, _, _, _, _)
depthFirstInEntries(f, dir, files, i, fileName) ==
  IF i > Len(files) THEN nullPath
  ELSE IF files[i] = fileName THEN Append(dir, fileName)
  ELSE LET file == files[i]
           found == IF isDirectory(f, dir, file) /\ ~findFileSkips(file)
                    THEN depthFirstInEntries(f, Append(dir, file), readdir(f, Append(dir, file)), 1, fileName)
                    ELSE nullPath
       IN IF found # nullPath THEN found ELSE depthFirstInEntries(f, dir, files, i + 1, fileName)

\* a lookup that takes the entries in listing order and walks into a directory before
\* it has looked at the names after it
findFileRecursive_depthFirst(f, dir, fileName) ==
  depthFirstInEntries(f, dir, readdir(f, dir), 1, fileName)

RECURSIVE findFileRecursive(_, _, _), findFileInEntries(_, _, _, _, _)
findFileInEntries(f, dir, files, i, fileName) ==
  IF i > Len(files) THEN nullPath
  ELSE LET file == files[i]
           found == IF isDirectory(f, dir, file) /\ ~findFileSkips(file)
                    THEN findFileRecursive(f, Append(dir, file), fileName)
                    ELSE nullPath
       IN IF found # nullPath THEN found ELSE findFileInEntries(f, dir, files, i + 1, fileName)

findFileRecursive(f, dir, fileName) ==
  LET files == listing(f, dir)
  IN IF seqIncludes(files, fileName) THEN Append(dir, fileName)
     ELSE findFileInEntries(f, dir, files, 1, fileName)

\* a scan that walks into every directory
scanSkips_none(item) == FALSE

scanSkips(item) ==
  startsWith(item, ".") \/ item = "node_modules" \/ item = "build" \/ item = "target"
    \/ item = "dist" \/ item = "obj"

RECURSIVE scanDirectory(_, _, _), scanItems(_, _, _, _, _)
\* a loop with its try around the whole of it: the first entry that cannot be stat-ed ends it
RECURSIVE scanItems_abortOnError(_, _, _, _, _)
scanItems_abortOnError(f, currentDir, items, i, extensions) ==
  IF i > Len(items) \/ statFails(f, Append(currentDir, items[i])) THEN <<>>
  ELSE LET item == items[i]
           here == IF isDirectory(f, currentDir, item)
                   THEN IF ~scanSkips(item)
                        THEN scanDirectory(f, Append(currentDir, item), extensions)
                        ELSE <<>>
                   ELSE IF isFile(f, currentDir, item) /\ toLowerCase(extname(item)) \in extensions
                        THEN <<Append(currentDir, item)>>
                        ELSE <<>>
       IN here \o scanItems_abortOnError(f, currentDir, items, i + 1, extensions)

scanItems(f, currentDir, items, i, extensions) ==
  IF i > Len(items) THEN <<>>
  ELSE LET item == items[i]
           here == IF statFails(f, Append(currentDir, item)) THEN <<>>
                   ELSE IF isDirectory(f, currentDir, item)
                   THEN IF ~scanSkips(item)
                        THEN scanDirectory(f, Append(currentDir, item), extensions)
                        ELSE <<>>
                   ELSE IF isFile(f, currentDir, item) /\ toLowerCase(extname(item)) \in extensions
                        THEN <<Append(currentDir, item)>>
                        ELSE <<>>
       IN here \o scanItems(f, currentDir, items, i + 1, extensions)

scanDirectory(f, currentDir, extensions) ==
  scanItems(f, currentDir, listing(f, currentDir), 1, extensions)

findFilesRecursive(f, dir, extensions) == scanDirectory(f, dir, extensions)

(***************************************************************************)
(* ProjectClassifier                                                       *)
(***************************************************************************)
configFiles ==
  << <<"Cargo.toml", "rust">>, <<"go.mod", "go">>, <<"package.json", "nodejs">>,
     <<"requirements.txt", "python">>, <<"setup.py", "python">>, <<"pyproject.toml", "python">>,
     <<"vite.config.js", "react">>, <<"vite.config.ts", "react">>,
     <<"Dockerfile", "docker">>, <<"docker-compose.yml", "docker">> >>

buildFiles == << <<"CMakeLists.txt", "cpp">>, <<"configure", "c">>, <<"autogen.sh", "c">> >>

\* a lookup that reads the root directory only
firstMarker_rootOnly(f, table) ==
  LET hits == {i \in 1..Len(table) : \E e \in f.files : e.dir = <<>> /\ e.name = table[i][1]}
  IN IF hits = {} THEN nullType
     ELSE table[CHOOSE i \in hits : \A j \in hits : i <= j][2]

\* a loop that keeps the last hit instead of returning on the first
firstMarker_lastWins(f, table) ==
  LET hits == {i \in 1..Len(table) : findFileRecursive(f, <<>>, table[i][1]) # nullPath}
  IN IF hits = {} THEN nullType
     ELSE table[CHOOSE i \in hits : \A j \in hits : i >= j][2]

\* for (const [file, lang] of Object.entries(table)) if (findFileRecursive(file)) return lang
firstMarker(f, table) ==
  LET hits == {i \in 1..Len(table) : findFileRecursive(f, <<>>, table[i][1]) # nullPath}
  IN IF hits = {} THEN nullType
     ELSE table[CHOOSE i \in hits : \A j \in hits : i <= j][2]

findMakefile(f) ==
  LET upper == findFileRecursive(f, <<>>, "Makefile")
  IN IF upper # nullPath THEN upper ELSE findFileRecursive(f, <<>>, "makefile")

\* a rule that takes any script file beside the HTML for a component file
markupSignal_anyScript(f) ==
  IF Len(findFilesRecursive(f, <<>>, {".html"})) > 0
  THEN IF Len(findFilesRecursive(f, <<>>, {".js", ".jsx", ".ts", ".tsx"})) > 0 THEN "react"
       ELSE IF ~pathExists(f, <<"node_modules">>) /\ ~pathExists(f, <<"package.json">>) THEN "web"
       ELSE nullType
  ELSE nullType

\* rule 2: HTML files present
markupSignal(f) ==
  IF Len(findFilesRecursive(f, <<>>, {".html"})) > 0
  THEN IF Len(findFilesRecursive(f, <<>>, {".jsx", ".tsx"})) > 0 THEN "react"
       ELSE IF ~pathExists(f, <<"node_modules">>) /\ ~pathExists(f, <<"package.json">>) THEN "web"
       ELSE nullType
  ELSE nullType

\* a rule that never reads the Makefile and keeps C for a mixed tree
makefileSignal_ignoresContent(f) ==
  IF findMakefile(f) = nullPath THEN nullType
  ELSE IF Len(findFilesRecursive(f, <<>>, {".c"})) > 0 THEN "c"
  ELSE IF Len(findFilesRecursive(f, <<>>, {".cpp", ".cc", ".cxx"})) > 0 THEN "cpp"
  ELSE nullType

\* a rule that never reads the Makefile and takes C++ for a mixed tree
makefileSignal_prefersCpp(f) ==
  IF findMakefile(f) = nullPath THEN nullType
  ELSE IF Len(findFilesRecursive(f, <<>>, {".cpp", ".cc", ".cxx"})) > 0 THEN "cpp"
  ELSE IF Len(findFilesRecursive(f, <<>>, {".c"})) > 0 THEN "c"
  ELSE nullType

\* rule 3, first half: a Makefile and the families it sits with
makefileSignal(f) ==
  LET makefile == findMakefile(f)
      makefileContent == f.mkContent
      hasCFiles == Len(findFilesRecursive(f, <<>>, {".c"})) > 0
      hasCppFiles == Len(findFilesRecursive(f, <<>>, {".cpp", ".cc", ".cxx"})) > 0
  IN IF makefile = nullPath THEN nullType
     ELSE IF hasCppFiles /\ ~hasCFiles THEN "cpp"
     ELSE IF hasCFiles /\ ~hasCppFiles THEN "c"
     ELSE IF hasCFiles /\ hasCppFiles
          THEN IF includes(makefileContent, "g++") \/ includes(makefileContent, ".cpp")
               THEN "cpp" ELSE "c"
     ELSE nullType

fileTypes ==
  << <<"c", {".c"}>>, <<"cpp", {".cpp", ".cc", ".cxx"}>>, <<"go", {".go"}>>, <<"rust", {".rs"}>>,
     <<"nodejs", {".js", ".mjs", ".cjs"}>>, <<"python", {".py"}>>, <<"react", {".jsx", ".tsx"}>>,
     <<"web", {".html"}>> >>

\* a loop that lets a later family with an equal count take over
RECURSIVE countLoop_lastWins(_, _, _, _)
countLoop_lastWins(f, i, detectedLang, maxFiles) ==
  IF i > Len(fileTypes) THEN <<detectedLang, maxFiles>>
  ELSE LET n == Len(findFilesRecursive(f, <<>>, fileTypes[i][2]))
       IN IF n >= maxFiles THEN countLoop_lastWins(f, i + 1, fileTypes[i][1], n)
          ELSE countLoop_lastWins(f, i + 1, detectedLang, maxFiles)

\* rule 4: the loop keeping the first family with the strictly greatest count
RECURSIVE countLoop(_, _, _, _)
countLoop(f, i, detectedLang, maxFiles) ==
  IF i > Len(fileTypes) THEN <<detectedLang, maxFiles>>
  ELSE LET n == Len(findFilesRecursive(f, <<>>, fileTypes[i][2]))
       IN IF n > maxFiles THEN countLoop(f, i + 1, fileTypes[i][1], n)
          ELSE countLoop(f, i + 1, detectedLang, maxFiles)

countSignal(f) ==
  LET r == countLoop(f, 1, nullType, 0)
  IN IF r[1] # nullType /\ r[2] > 0 THEN r[1] ELSE nullType

commonDirs == <<"src", "lib", "include", "source">>

\* a conventional directory taken as a C project whatever it holds
dirSignalFrom_anyDir(f, i) ==
  IF \E k \in i..Len(commonDirs) : pathExists(f, <<commonDirs[k]>>) THEN "c" ELSE nullType

\* rule 5: conventional source directories
RECURSIVE dirSignalFrom(_, _)
dirSignalFrom(f, i) ==
  IF i > Len(commonDirs) THEN nullType
  ELSE LET dirPath == <<commonDirs[i]>>
       IN IF pathExists(f, dirPath)
          THEN IF Len(findFilesRecursive(f, dirPath, {".cpp", ".cc", ".cxx"})) > 0 THEN "cpp"
               ELSE IF Len(findFilesRecursive(f, dirPath, {".c"})) > 0 THEN "c"
               ELSE dirSignalFrom(f, i + 1)
          ELSE dirSignalFrom(f, i + 1)

dirSignal(f) == dirSignalFrom(f, 1)

detectProjectType(f) ==
  LET byConfig == firstMarker(f, configFiles)
      byMarkup == markupSignal(f)
      byMake == makefileSignal(f)
      byBuild == firstMarker(f, buildFiles)
      byCount == countSignal(f)
  IN IF byConfig # nullType THEN byConfig
     ELSE IF byMarkup # nullType THEN byMarkup
     ELSE IF byMake # nullType THEN byMake
     ELSE IF byBuild # nullType THEN byBuild
     ELSE IF byCount # nullType THEN byCount
     ELSE dirSignal(f)

(***************************************************************************)
(* BuildOrchestrator.  Every procedure yields an outcome: what it returned *)
(* or the error it threw, the tree it left, and the commands it issued.    *)
(* env holds what the invoked tools do: exit status and files written.     *)
(***************************************************************************)
projectPath == <<"proj">>          \* absoluteProjectPath; its last component names the project
processCwd == <<"$cwd">>           \* process.cwd(), for commands issued without a cwd
buildDir == <<"build">>            \* this.buildDir, below the project root

absolute(p) == projectPath \o p
basename(p) == p[Len(p)]
dirname(p) == SubSeq(p, 1, Len(p) - 1)
parentOf(e) == e.dir
fullPath(e) == Append(e.dir, e.name)

RECURSIVE joinWith(_, _)
joinWith(parts, sep) ==
  IF Len(parts) = 0 THEN ""
  ELSE IF Len(parts) = 1 THEN parts[1]
  ELSE parts[1] \o sep \o joinWith(Tail(parts), sep)

\* the string of an absolute path, and of a path relative to the project root
pathString(p) == "/" \o joinWith(absolute(p), "/")
relativeString(p) == joinWith(p, "/")

NoPkg == [valid |-> FALSE, main |-> "", start |-> "", dev |-> ""]

ensureDir(f, p) == IF pathExists(f, p) THEN f ELSE [f EXCEPT !.dirs = @ \cup {p}]
writeFile(f, p, x) ==
  [f EXCEPT !.files = {e \in @ : fullPath(e) # p} \cup {[dir |-> dirname(p), name |-> basename(p), x |-> x]}]
isRegularFile(f, p) == \E e \in f.files : fullPath(e) = p
isExecutable(f, p) == \E e \in f.files : fullPath(e) = p /\ e.x
\* fs.copy keeps the mode of a regular file
copy(f, from, to) == writeFile(f, to, isExecutable(f, from))
chmod755(f, p) == writeFile(f, p, TRUE)
writeAll(f, base, written) ==
  [f EXCEPT !.files = {e \in @ : \A w \in written : fullPath(e) # base \o fullPath(w)}
                        \cup {[dir |-> base \o w.dir, name |-> w.name, x |-> w.x] : w \in written}]

\* outcome: the exit status of a command ("0" or "1"), the answer to a prompt, "" otherwise
Event(kind, what, cwd, outcome) == [kind |-> kind, what |-> what, cwd |-> cwd, outcome |-> outcome]
exitOf(status) == IF status = "fail" THEN "1" ELSE "0"
log(message) == Event("log", message, processCwd, "")
Return(v, f, ev) == [threw |-> FALSE, value |-> v, message |-> "", fs |-> f, events |-> ev]
Throw(msg, f, ev) == [threw |-> TRUE, value |-> [success |-> FALSE], message |-> msg, fs |-> f, events |-> ev]

outputSuffix(language) ==
  CASE language = "c" -> "" [] language = "cpp" -> "" [] language = "go" -> ""
    [] language = "rust" -> "-rust" [] language = "nodejs" -> ".js" [] language = "python" -> ".py"
    [] language = "web" -> ".html" [] language = "react" -> "-react" [] language = "docker" -> "-docker"
    [] OTHER -> "undefined"

getOutputName(language) ==
  (IF basename(projectPath) = "." THEN "app" ELSE basename(projectPath)) \o outputSuffix(language)

possibleDirs == <<".", "build", "bin", "out", "dist">>
joinPath(base, d) == IF d = "." THEN base ELSE Append(base, d)

\* files.find(file => isFile && (mode & X_OK) [&& !file.includes('.')])
findExecFile(f, searchPath, noDot) ==
  LET files == readdir(f, searchPath)
      hits == {i \in 1..Len(files) :
                 /\ isFile(f, searchPath, files[i])
                 /\ isExecutable(f, Append(searchPath, files[i]))
                 /\ (noDot => ~includes(files[i], "."))}
  IN IF hits = {} THEN nullPath
     ELSE Append(searchPath, files[CHOOSE i \in hits : \A j \in hits : i <= j])

RECURSIVE searchPossibleDirs(_, _, _)
searchPossibleDirs(f, base, i) ==
  IF i > Len(possibleDirs) THEN nullPath
  ELSE LET searchPath == joinPath(base, possibleDirs[i])
           execFile == IF pathExists(f, searchPath) THEN findExecFile(f, searchPath, FALSE) ELSE nullPath
       IN IF execFile # nullPath THEN execFile ELSE searchPossibleDirs(f, base, i + 1)

locateExecutable(f, base) ==
  LET executable == searchPossibleDirs(f, base, 1)
  IN IF executable # nullPath THEN executable ELSE findExecFile(f, base, TRUE)

nativeExtensions(language) == IF language = "c" THEN {".c"} ELSE {".cpp", ".cc", ".cxx"}
nativeCompiler(language) == IF language = "c" THEN "gcc" ELSE "g++"
noSourcesMessage(language) ==
  IF language = "c" THEN "No .c files found in project directory"
  ELSE "No C++ files found in project directory"

\* the direct compilation both native procedures end with
directCompile(f, env, language, outputPath, ev) ==
  LET files == findFilesRecursive(f, <<>>, nativeExtensions(language))
      f1 == ensureDir(f, dirname(outputPath))
      ev1 == Append(ev, Event("exec", nativeCompiler(language), processCwd, exitOf(env.cc)))
      f2 == IF env.cc = "ok" THEN writeFile(f1, outputPath, TRUE) ELSE f1
  IN IF Len(files) = 0 THEN Throw(noSourcesMessage(language), f, ev)
     ELSE IF env.cc = "fail" THEN Throw("Command failed: " \o nativeCompiler(language), f1, ev1)
     ELSE IF ~pathExists(f2, outputPath) THEN Throw("ENOENT: no such file or directory, chmod", f2, ev1)
     ELSE Return([success |-> TRUE, output |-> pathString(outputPath), executable |-> pathString(outputPath)],
                 chmod755(f2, outputPath), ev1)

\* the built executable was found: copy it to the output path
collectExecutable(f1, env, language, outputPath, ev1, executable) ==
  LET f2 == ensureDir(f1, dirname(outputPath))
      evCopy == Append(ev1, Event("copy", pathString(executable), absolute(dirname(outputPath)),
                                  IF env.copyOk THEN "0" ELSE "1"))
      makeFailed == log("Make failed, falling back to direct compilation")
  IN IF ~env.copyOk
     THEN directCompile(f2, env, language, outputPath, Append(evCopy, makeFailed))
     ELSE Return([success |-> TRUE, output |-> pathString(outputPath), executable |-> pathString(outputPath)],
                 copy(f2, executable, outputPath), evCopy)

\* make has run without error: look for what it built
afterMake(f1, env, language, outputPath, ev1, executable) ==
  LET noExecutable == log("Make succeeded but no executable found, falling back to direct compilation")
  IN IF executable = nullPath
     THEN directCompile(f1, env, language, outputPath, Append(ev1, noExecutable))
     ELSE collectExecutable(f1, env, language, outputPath, ev1, executable)

\* execAsync('make', { cwd: path.dirname(makefile) }) and what follows it
runMake(f, env, language, outputPath, makeDir) ==
  LET ev1 == <<Event("exec", "make", absolute(makeDir), exitOf(env.make))>>
      f1 == writeAll(f, makeDir, env.makeWrites)
      makeFailed == log("Make failed, falling back to direct compilation")
  IN IF env.make = "fail"
     THEN directCompile(f1, env, language, outputPath, Append(ev1, makeFailed))
     ELSE afterMake(f1, env, language, outputPath, ev1, locateExecutable(f1, makeDir))

\* a build that gives up when make fails or leaves no executable
giveUpAfterMake(f1, env, language, outputPath, ev1, executable) ==
  IF env.make = "fail" THEN Throw("Command failed: make", f1, ev1)
  ELSE IF executable = nullPath THEN Throw("No executable found after make", f1, ev1)
  ELSE collectExecutable(f1, env, language, outputPath, ev1, executable)

compileNative_noFallback(f, env, language, outputPath) ==
  IF findMakefile(f) = nullPath THEN directCompile(f, env, language, outputPath, <<>>)
  ELSE giveUpAfterMake(writeAll(f, dirname(findMakefile(f)), env.makeWrites), env, language, outputPath,
                       <<Event("exec", "make", absolute(dirname(findMakefile(f))), exitOf(env.make))>>,
                       locateExecutable(writeAll(f, dirname(findMakefile(f)), env.makeWrites),
                                        dirname(findMakefile(f))))

\* compileC and compileCpp: the same text but for the extensions and the compiler
compileNative(f, env, language, outputPath) ==
  IF findMakefile(f) = nullPath THEN directCompile(f, env, language, outputPath, <<>>)
  ELSE runMake(f, env, language, outputPath, dirname(findMakefile(f)))

compileC(f, env, outputPath) == compileNative(f, env, "c", outputPath)
compileCpp(f, env, outputPath) == compileNative(f, env, "cpp", outputPath)

\* a build that leaves the mode of the artifact as the tool wrote it
compileGo_noChmod(f, env, outputPath) ==
  LET f1 == ensureDir(f, dirname(outputPath))
      ev1 == <<Event("exec", "go build -o \"" \o pathString(outputPath) \o "\"", absolute(<<>>),
                     exitOf(env.go))>>
      f2 == IF env.go \in {"ok", "plain"} THEN writeFile(f1, outputPath, env.go = "ok") ELSE f1
  IN IF env.go = "fail" THEN Throw("Command failed: go build", f1, ev1)
     ELSE IF ~pathExists(f2, outputPath) THEN Throw("ENOENT: no such file or directory, chmod", f2, ev1)
     ELSE Return([success |-> TRUE, output |-> pathString(outputPath), executable |-> pathString(outputPath)],
                 f2, ev1)

\* env.go: "ok" the tool wrote an executable file, "plain" it wrote the file without the
\* executable bit, "nofile" it exited zero and wrote nothing, "fail" it exited non-zero
compileGo(f, env, outputPath) ==
  LET f1 == ensureDir(f, dirname(outputPath))
      ev1 == <<Event("exec", "go build -o \"" \o pathString(outputPath) \o "\"", absolute(<<>>),
                     exitOf(env.go))>>
      f2 == IF env.go \in {"ok", "plain"} THEN writeFile(f1, outputPath, env.go = "ok") ELSE f1
  IN IF env.go = "fail" THEN Throw("Command failed: go build", f1, ev1)
     ELSE IF ~pathExists(f2, outputPath) THEN Throw("ENOENT: no such file or directory, chmod", f2, ev1)
     ELSE Return([success |-> TRUE, output |-> pathString(outputPath), executable |-> pathString(outputPath)],
                 chmod755(f2, outputPath), ev1)

releaseDir == <<"target", "release">>

\* rustBinaries.find(f => isFile && (mode & X_OK))
firstExecutableOf(f, paths) ==
  LET hits == {i \in 1..Len(paths) : isRegularFile(f, paths[i]) /\ isExecutable(f, paths[i])}
  IN IF hits = {} THEN nullPath ELSE paths[CHOOSE i \in hits : \A j \in hits : i <= j]

\* a build that trusts cargo's exit code and never looks for the artifact
compileRust_skipsCheck(f, env, outputPath) ==
  LET ev1 == <<Event("exec", "cargo build --release", absolute(<<>>), exitOf(env.cargo))>>
      f1 == IF env.cargo = "ok" THEN writeAll(f, releaseDir, env.cargoWrites) ELSE f
      f2 == ensureDir(f1, dirname(outputPath))
  IN IF env.cargo = "fail" THEN Throw("Command failed: cargo build --release", f, ev1)
     ELSE Return([success |-> TRUE, output |-> pathString(outputPath), executable |-> pathString(outputPath)],
                 f2, ev1)

compileRust(f, env, outputPath) ==
  LET ev1 == <<Event("exec", "cargo build --release", absolute(<<>>), exitOf(env.cargo))>>
      f1 == IF env.cargo = "ok" THEN writeAll(f, releaseDir, env.cargoWrites) ELSE f
      cargoOutput == Append(releaseDir, basename(projectPath))
      f2 == ensureDir(f1, dirname(outputPath))
      rustBinaries == findFilesRecursive(f2, releaseDir, {""})
      executable == firstExecutableOf(f2, rustBinaries)
      source == IF pathExists(f2, cargoOutput) THEN cargoOutput ELSE executable
      evCopy == Append(ev1, Event("copy", pathString(source), absolute(dirname(outputPath)),
                                  IF env.copyOk THEN "0" ELSE "1"))
      f3 == copy(f2, source, outputPath)
  IN IF env.cargo = "fail" THEN Throw("Command failed: cargo build --release", f, ev1)
     ELSE IF source = nullPath THEN Throw("Could not find Rust build output", f2, ev1)
     ELSE IF ~env.copyOk THEN Throw("ENOSPC: no space left on device, copyfile", f2, evCopy)
     ELSE Return([success |-> TRUE, output |-> pathString(outputPath), executable |-> pathString(outputPath)],
                 chmod755(f3, outputPath), evCopy)

RECURSIVE splitOn(_, _, _)
\* s.split(sep) for a one-character separator; acc is the piece being read
splitOn(s, sep, acc) ==
  IF Len(s) = 0 THEN <<acc>>
  ELSE IF charAt(s, 1) = sep THEN <<acc>> \o splitOn(Tail(s), sep, "")
  ELSE splitOn(Tail(s), sep, acc \o charAt(s, 1))

\* path.join(dir, relative): the components of relative, '.' and empty ones dropped
joinRelative(dir, relative) ==
  LET isName(c) == c # "" /\ c # "." IN dir \o SelectSeq(splitOn(relative, "/", ""), isName)

isSpace(c) == c = " " \/ c = "\t" \/ c = "\n"

RECURSIVE skipWhile(_, _, _)
\* the first index >= i whose character is (space = FALSE) or is not (space = TRUE) a blank
skipWhile(s, i, space) ==
  IF i > Len(s) \/ isSpace(charAt(s, i)) # space THEN i ELSE skipWhile(s, i + 1, space)

\* startScript.match(/node\s+([^\s]+)/): the captured group, "" when nothing matches
nodeScriptFile(s) ==
  LET starts == {i \in 1..Len(s) :
                   /\ i + 4 <= Len(s)
                   /\ SubSeq(s, i, i + 3) = "node"
                   /\ isSpace(charAt(s, i + 4))
                   /\ skipWhile(s, i + 4, TRUE) <= Len(s)}
      i0 == CHOOSE i \in starts : \A j \in starts : i <= j
      from == skipWhile(s, i0 + 4, TRUE)
  IN IF starts = {} THEN "" ELSE SubSeq(s, from, skipWhile(s, from, FALSE) - 1)

Found(p) == [threw |-> FALSE, message |-> "", path |-> p]
NotFound(msg) == [threw |-> TRUE, message |-> msg, path |-> nullPath]

firstWhere(paths, hits) ==
  IF hits = {} THEN nullPath ELSE paths[CHOOSE i \in hits : \A j \in hits : i <= j]

\* a list that looks under src/ before the root
priorityFiles_srcFirst ==
  << <<"src", "app.js">>, <<"src", "server.js">>, <<"src", "index.js">>, <<"src", "main.js">>,
     <<"app.js">>, <<"server.js">>, <<"index.js">>, <<"main.js">>,
     <<"lib", "app.js">>, <<"lib", "server.js">>, <<"lib", "index.js">>, <<"lib", "main.js">> >>

priorityFiles ==
  << <<"app.js">>, <<"server.js">>, <<"index.js">>, <<"main.js">>,
     <<"src", "app.js">>, <<"src", "server.js">>, <<"src", "index.js">>, <<"src", "main.js">>,
     <<"lib", "app.js">>, <<"lib", "server.js">>, <<"lib", "index.js">>, <<"lib", "main.js">> >>

clientMarks == {"public/", "static/", "assets/", "css/", "js/"}

findNodeMainFile(f) ==
  LET packageJson == findFileRecursive(f, <<>>, "package.json")
      pkg == f.pkg
      mainFromPkg == joinRelative(dirname(packageJson), pkg.main)
      startScript == IF pkg.start # "" THEN pkg.start ELSE pkg.dev
      scriptFile == nodeScriptFile(startScript)
      mainFromScript == joinRelative(dirname(packageJson), scriptFile)
      usePkgMain == packageJson # nullPath /\ pkg.valid /\ pkg.main # "" /\ pathExists(f, mainFromPkg)
      useScript == /\ packageJson # nullPath /\ pkg.valid /\ startScript # "" /\ scriptFile # ""
                   /\ pathExists(f, mainFromScript)
      byPriority == firstWhere(priorityFiles, {i \in 1..Len(priorityFiles) : pathExists(f, priorityFiles[i])})
      allJsFiles == findFilesRecursive(f, <<>>, {".js", ".mjs", ".cjs"})
      isServerFile(file) ==
        /\ \A m \in clientMarks : ~includes(toLowerCase(relativeString(file)), m)
        /\ ~includes(pathString(file), "node_modules")
      serverFiles == SelectSeq(allJsFiles, isServerFile)
      byIndicator == firstWhere(serverFiles, {i \in 1..Len(serverFiles) : serverFiles[i] \in f.serverish})
      isAtRoot(file) == dirname(file) = <<>>
      rootJsFiles == SelectSeq(allJsFiles, isAtRoot)
  IN IF usePkgMain THEN Found(mainFromPkg)
     ELSE IF useScript THEN Found(mainFromScript)
     ELSE IF byPriority # nullPath THEN Found(byPriority)
     ELSE IF Len(allJsFiles) = 0 THEN NotFound("No JavaScript files found in project directory")
     ELSE IF Len(serverFiles) > 0
          THEN IF byIndicator # nullPath THEN Found(byIndicator) ELSE Found(serverFiles[1])
     ELSE IF Len(rootJsFiles) > 0 THEN Found(rootJsFiles[1])
     ELSE Found(allJsFiles[1])

\* a preference that puts index before main
priorityNames_indexFirst == <<"index", "main", "app", "server">>

priorityNames == <<"main", "index", "app", "server">>

RECURSIVE findByPriorityName(_, _)
findByPriorityName(files, k) ==
  IF k > Len(priorityNames) THEN nullPath
  ELSE LET mainFile == firstWhere(files, {i \in 1..Len(files) :
                                             includes(toLowerCase(basename(files[i])), priorityNames[k])})
       IN IF mainFile # nullPath THEN mainFile ELSE findByPriorityName(files, k + 1)

\* the search without its guard on an empty list: files[0] of nothing is undefined
findMainFile_noEmptyCheck(f, extension) ==
  LET files == findFilesRecursive(f, <<>>, {extension})
      mainFile == findByPriorityName(files, 1)
  IN IF mainFile # nullPath THEN Found(mainFile)
     ELSE IF Len(files) > 0 THEN Found(files[1]) ELSE Found(nullPath)

findMainFile(f, extension) ==
  LET files == findFilesRecursive(f, <<>>, {extension})
      mainFile == findByPriorityName(files, 1)
  IN IF Len(files) = 0 THEN NotFound("No " \o extension \o " files found")
     ELSE IF mainFile # nullPath THEN Found(mainFile)
     ELSE Found(files[1])

\* `${cmd} "${path}"`; a path that is undefined prints as the word undefined
quoted(p) == IF p = nullPath THEN "\"undefined\"" ELSE "\"" \o pathString(p) \o "\""
outputOf(p) == IF p = nullPath THEN "" ELSE pathString(p)

prepareNode(f, env) ==
  LET packageJson == findFileRecursive(f, <<>>, "package.json")
      ev1 == IF packageJson # nullPath
             THEN <<Event("exec", "npm install", absolute(dirname(packageJson)), exitOf(env.npm))>> ELSE <<>>
      mainFile == findNodeMainFile(f)
  IN IF packageJson # nullPath /\ env.npm = "fail" THEN Throw("Command failed: npm install", f, ev1)
     ELSE IF mainFile.threw THEN Throw(mainFile.message, f, ev1)
     ELSE Return([success |-> TRUE, output |-> outputOf(mainFile.path),
                  executable |-> "node " \o quoted(mainFile.path), runtime |-> "node"], f, ev1)

preparePython(f, env) ==
  LET requirementsFile == findFileRecursive(f, <<>>, "requirements.txt")
      ev1 == IF requirementsFile # nullPath
             THEN <<Event("exec", "pip3 install -r requirements.txt", absolute(dirname(requirementsFile)),
                          exitOf(env.pip))>>
             ELSE <<>>
      mainFile == findMainFile(f, ".py")
  IN IF requirementsFile # nullPath /\ env.pip = "fail"
     THEN Throw("Command failed: pip3 install -r requirements.txt", f, ev1)
     ELSE IF mainFile.threw THEN Throw(mainFile.message, f, ev1)
     ELSE Return([success |-> TRUE, output |-> outputOf(mainFile.path),
                  executable |-> "python3 " \o quoted(mainFile.path), runtime |-> "python3"], f, ev1)

prepareWeb(f, env) ==
  LET htmlFiles == findFilesRecursive(f, <<>>, {".html"})
      named == firstWhere(htmlFiles, {i \in 1..Len(htmlFiles) :
                 \/ includes(toLowerCase(basename(htmlFiles[i])), "index")
                 \/ includes(toLowerCase(basename(htmlFiles[i])), "main")})
      mainHtml == IF named # nullPath THEN named ELSE IF Len(htmlFiles) > 0 THEN htmlFiles[1] ELSE nullPath
  IN IF mainHtml = nullPath THEN Throw("No HTML files found in web project", f, <<>>)
     ELSE Return([success |-> TRUE, output |-> pathString(mainHtml),
                  executable |-> "open " \o quoted(mainHtml), runtime |-> "browser"], f, <<>>)

prepareReact(f, env) ==
  LET packageJson == findFileRecursive(f, <<>>, "package.json")
      ev1 == IF packageJson # nullPath
             THEN <<Event("exec", "npm install", absolute(dirname(packageJson)), exitOf(env.npm))>> ELSE <<>>
  IN IF packageJson # nullPath /\ env.npm = "fail" THEN Throw("Command failed: npm install", f, ev1)
     ELSE Return([success |-> TRUE, output |-> pathString(<<>>),
                  executable |-> "npm run dev", runtime |-> "npm"], f, ev1)

\* a container build that is content with a docker-compose.yml
prepareDocker_composeToo(f, env) ==
  IF findFileRecursive(f, <<>>, "Dockerfile") = nullPath /\ findFileRecursive(f, <<>>, "docker-compose.yml") = nullPath
  THEN Throw("No Dockerfile found", f, <<>>)
  ELSE Return([success |-> TRUE, output |-> pathString(<<>>),
               executable |-> "docker build -t myapp . && docker run -p 3000:3000 myapp",
               runtime |-> "docker"], f, <<>>)

prepareDocker(f, env) ==
  LET dockerfile == findFileRecursive(f, <<>>, "Dockerfile")
  IN IF dockerfile = nullPath THEN Throw("No Dockerfile found", f, <<>>)
     ELSE Return([success |-> TRUE, output |-> pathString(<<>>),
                  executable |-> "docker build -t myapp . && docker run -p 3000:3000 myapp",
                  runtime |-> "docker"], f, <<>>)

\* the switch of compile(), before its try/catch
dispatch(language, f, env, outputPath) ==
  CASE language = "c" -> compileC(f, env, outputPath)
    [] language = "cpp" -> compileCpp(f, env, outputPath)
    [] language = "go" -> compileGo(f, env, outputPath)
    [] language = "rust" -> compileRust(f, env, outputPath)
    [] language = "nodejs" -> prepareNode(f, env)
    [] language = "python" -> preparePython(f, env)
    [] language = "web" -> prepareWeb(f, env)
    [] language = "react" -> prepareReact(f, env)
    [] language = "docker" -> prepareDocker(f, env)
    [] OTHER -> Throw("Unsupported language: " \o language, f, <<>>)

\* catch (error) { return { success: false, error: error.message } }
catchError(o) ==
  IF o.threw THEN Return([success |-> FALSE, error |-> o.message], o.fs, o.events) ELSE o

\* the switch without the try/catch around it
compile_noCatch(language, f, env) ==
  dispatch(language, f, env, Append(buildDir, getOutputName(language)))

compile(language, f, env) ==
  LET outputName == getOutputName(language)
      outputPath == Append(buildDir, outputName)
  IN catchError(dispatch(language, f, env, outputPath))

(***************************************************************************)
(* ToolchainGuard                                                          *)
(***************************************************************************)
packageOf(language) ==
  CASE language = "c" -> "gcc" [] language = "cpp" -> "g++" [] language = "go" -> "golang"
    [] language = "rust" -> "cargo" [] language = "nodejs" -> "nodejs"
    [] language = "python" -> "python3" [] language = "web" -> "" [] language = "react" -> "nodejs"
    [] language = "docker" -> "docker.io"

\* a guard that goes on after a refusal or a failed install
ensureDependencies_ignoresRefusal(language, installed, install, code) ==
  LET package == packageOf(language)
      probe == <<Event("probe", "dpkg -l | grep -q " \o package, processCwd,
                       IF installed THEN "0" ELSE "1")>>
      asked == Append(probe, Event("prompt", "Install " \o package \o "? (requires sudo)", processCwd,
                                   IF install THEN "yes" ELSE "no"))
      spawned == Append(asked, Event("spawn", "sudo apt install -y " \o package, processCwd,
                                     IF code = 0 THEN "0" ELSE "1"))
  IN [threw |-> FALSE, message |-> "",
      events |-> IF installed THEN probe ELSE IF ~install THEN asked ELSE spawned]

\* installed: what the dpkg probe answers; install: the user's answer to the prompt;
\* code: the exit code of apt
ensureDependencies(language, installed, install, code) ==
  LET package == packageOf(language)
      probe == <<Event("probe", "dpkg -l | grep -q " \o package, processCwd,
                       IF installed THEN "0" ELSE "1")>>
      asked == Append(probe, Event("prompt", "Install " \o package \o "? (requires sudo)", processCwd,
                                   IF install THEN "yes" ELSE "no"))
      spawned == Append(asked, Event("spawn", "sudo apt install -y " \o package, processCwd,
                                     IF code = 0 THEN "0" ELSE "1"))
  IN IF installed THEN [threw |-> FALSE, message |-> "", events |-> probe]
     ELSE IF ~install
          THEN [threw |-> TRUE, message |-> "Required package " \o package \o " is not installed",
                events |-> asked]
     ELSE IF code # 0
          THEN [threw |-> TRUE, message |-> "Failed to install " \o package, events |-> spawned]
     ELSE [threw |-> FALSE, message |-> "", events |-> spawned]

\* a skip list that also holds the interpreted types
skipsDependencies_runtimeFlag(language) ==
  language \in {"nodejs", "python", "web", "react", "docker"}

\* compileProject line 507: the types for which ensureDependencies is not called
skipsDependencies(language) == language = "web" \/ language = "react" \/ language = "docker"

(***************************************************************************)
(* Runner                                                                  *)
(***************************************************************************)
RECURSIVE splitString(_, _, _)
\* s.split(sep); acc is the piece being read
splitString(s, sep, acc) ==
  IF Len(s) = 0 THEN <<acc>>
  ELSE IF startsWith(s, sep) THEN <<acc>> \o splitString(SubSeq(s, Len(sep) + 1, Len(s)), sep, "")
  ELSE splitString(Tail(s), sep, acc \o charAt(s, 1))

RECURSIVE lastSlash(_, _)
lastSlash(s, i) == IF i = 0 THEN 0 ELSE IF charAt(s, i) = "/" THEN i ELSE lastSlash(s, i - 1)

\* a dirname that gives the path itself
dirnameString_same(s) == s

\* path.dirname of an absolute path string
dirnameString(s) ==
  LET i == lastSlash(s, Len(s)) IN IF i <= 1 THEN "/" ELSE SubSeq(s, 1, i - 1)

openCommand(platform, output) ==
  IF platform = "win32" THEN "start \"\" \"" \o output \o "\""
  ELSE IF platform = "darwin" THEN "open \"" \o output \o "\""
  ELSE "xdg-open \"" \o output \o "\""

\* a loop that gives up at the first step that exits with a non-zero code
RECURSIVE dockerSteps_stopOnFailure(_, _, _, _)
dockerSteps_stopOnFailure(commands, k, cwd, codes) ==
  IF k > Len(commands) THEN <<>>
  ELSE <<Event("spawn", commands[k], cwd, ""), Event("close", commands[k], cwd, ToString(codes[k]))>>
         \o (IF codes[k] # 0
             THEN <<log("Docker command failed with code: " \o ToString(codes[k]))>>
             ELSE dockerSteps_stopOnFailure(commands, k + 1, cwd, codes))

\* the loop over the steps: spawn, wait for 'close', report a non-zero code, go on
RECURSIVE dockerSteps(_, _, _, _)
dockerSteps(commands, k, cwd, codes) ==
  IF k > Len(commands) THEN <<>>
  ELSE <<Event("spawn", commands[k], cwd, ""), Event("close", commands[k], cwd, ToString(codes[k]))>>
         \o (IF codes[k] # 0
             THEN <<log("Docker command failed with code: " \o ToString(codes[k]))>> ELSE <<>>)
         \o dockerSteps(commands, k + 1, cwd, codes)

\* a run stage that starts the program without asking
offerToRun_unasked(res, f, run, platform, codes) ==
  <<Event("spawn", res.executable, processCwd, "")>>

\* run: the answer to the confirmation; codes: exit codes of the container steps
offerToRun(res, f, run, platform, codes) ==
  LET runtime == IF "runtime" \in DOMAIN res THEN res.runtime ELSE ""
      ask(message) == <<Event("prompt", message, processCwd, IF run THEN "yes" ELSE "no")>>
      exists == \E e \in f.files : pathString(fullPath(e)) = res.executable
  IN IF runtime = "browser"
     THEN ask("Open in web browser?")
            \o (IF run THEN <<Event("exec", openCommand(platform, res.output), processCwd, "")>> ELSE <<>>)
     ELSE IF runtime = "npm"
     THEN ask("Start development server?")
            \o (IF run THEN <<Event("spawn", res.executable, dirnameString(res.output), "")>> ELSE <<>>)
     ELSE IF runtime = "docker"
     THEN ask("Build and run with Docker?")
            \o (IF run THEN dockerSteps(splitString(res.executable, " && ", ""), 1,
                                        dirnameString(res.output), codes)
                ELSE <<>>)
     ELSE IF runtime # ""
     THEN ask("Run the program with " \o runtime \o "?")
            \o (IF run THEN <<Event("spawn", res.executable, processCwd, "")>> ELSE <<>>)
     ELSE ask("Run the compiled program?")
            \o (IF ~run THEN <<>>
                ELSE IF ~exists THEN <<log("Error running program")>>
                ELSE <<Event("spawn", res.executable, processCwd, "")>>)

(***************************************************************************)
(* What the invoked build tools may do                                     *)
(***************************************************************************)
written(dir, name, x) == [dir |-> dir, name |-> name, x |-> x]

MakeOutputs ==
  { {}, {written(<<>>, "app", TRUE)}, {written(<<"bin">>, "tool", TRUE)},
    {written(<<>>, "main.o", FALSE)} }

CargoOutputs ==
  { {}, {written(<<>>, "proj", TRUE)}, {written(<<>>, "tool", TRUE)},
    {written(<<"deps">>, "tool", TRUE)}, {written(<<"build">>, "tool", TRUE)},
    {written(<<>>, "libproj.rlib", FALSE)}, {written(<<>>, ".cargo-lock", FALSE)} }

DefaultEnv ==
  [make |-> "ok", makeWrites |-> {}, copyOk |-> TRUE, cc |-> "ok", go |-> "ok",
   cargo |-> "ok", cargoWrites |-> {}, npm |-> "ok", pip |-> "ok"]

EnvsFor(language) ==
  IF language \in {"c", "cpp"}
  THEN {[DefaultEnv EXCEPT !.make = m, !.makeWrites = w, !.copyOk = k, !.cc = c] :
          m \in {"ok", "fail"}, w \in MakeOutputs, k \in BOOLEAN, c \in {"ok", "fail", "nofile"}}
  ELSE IF language = "go" THEN {[DefaultEnv EXCEPT !.go = g] : g \in {"ok", "plain", "fail", "nofile"}}
  ELSE IF language = "rust"
  THEN {[DefaultEnv EXCEPT !.cargo = c, !.cargoWrites = w, !.copyOk = k] :
          c \in {"ok", "fail"}, w \in CargoOutputs, k \in BOOLEAN}
  ELSE IF language \in {"nodejs", "react"} THEN {[DefaultEnv EXCEPT !.npm = n] : n \in {"ok", "fail"}}
  ELSE IF language = "python" THEN {[DefaultEnv EXCEPT !.pip = p] : p \in {"ok", "fail"}}
  ELSE {DefaultEnv}

(***************************************************************************)
(* Inputs of the classifier runs                                           *)
(***************************************************************************)
MaxFiles == 3

RECURSIVE upTo(_, _)
\* the subsets of S with at most k elements
upTo(S, k) ==
  IF k = 0 THEN {{}}
  ELSE LET smaller == upTo(S, k - 1) IN smaller \cup {T \cup {e} : T \in smaller, e \in S}

at(dir, names) == {[dir |-> dir, name |-> n, x |-> FALSE] : n \in names}

DetectPool ==
  at(<<>>, {"Cargo.toml", "go.mod", "package.json", "requirements.txt", "setup.py",
            "pyproject.toml", "vite.config.js", "vite.config.ts", "Dockerfile",
            "docker-compose.yml", "Makefile", "CMakeLists.txt",
            "main.c", "util.cpp", "app.js", "index.html", "style.css", "README.md"})
  \cup at(<<"src">>, {"Cargo.toml", "package.json", "UTIL.C", "io.cc", "App.jsx", "README.md"})
  \cup at(<<"src", "lib">>, {"go.mod"})
  \cup at(<<"node_modules">>, {"package.json", "main.c"})
  \cup at(<<"target">>, {"Cargo.toml"})
  \cup at(<<"obj">>, {"go.mod"})
  \cup at(<<"src", "obj">>, {"main.c"})

MakefileContents == {"gcc -o app main.c", "g++ -o app main.c", "cc -c util.cpp"}

hasMakefile(files) == \E e \in files : e.name \in {"Makefile", "makefile"}

DetectInputs ==
  {[files |-> F, dirs |-> {}, rev |-> r, mkContent |-> m, pkg |-> NoPkg, serverish |-> {}, denied |-> {}] :
     F \in upTo(DetectPool, MaxFiles), r \in BOOLEAN, m \in MakefileContents}

\* the files createReactTemplate writes
ReactTemplate ==
  at(<<>>, {"package.json", "vite.config.js", "index.html"}) \cup at(<<"src">>, {"main.jsx", "App.jsx"})

InitDetect ==
  /\ fs \in {f \in DetectInputs : ~hasMakefile(f.files) => f.mkContent = "gcc -o app main.c"}
              \cup {[files |-> ReactTemplate, dirs |-> {}, rev |-> r, mkContent |-> "gcc -o app main.c",
                     pkg |-> NoPkg, serverish |-> {}, denied |-> {}] : r \in BOOLEAN}
  /\ pc = "classify"
  /\ projectType = nullType
  /\ result = [success |-> FALSE]
  /\ threw = FALSE
  /\ events = <<>>
  /\ exitCode = "none"

\* one call of detectProjectType on the tree
Classify ==
  /\ pc = "classify"
  /\ projectType' = detectProjectType(fs)
  /\ pc' = "classified"
  /\ UNCHANGED <<fs, result, threw, events, exitCode>>

NextDetect == Classify

SpecDetect == InitDetect /\ [][NextDetect]_vars

(***************************************************************************)
(* compileProject, stage by stage                                          *)
(***************************************************************************)
ProjectPool ==
  at(<<>>, {"Cargo.toml", "go.mod", "package.json", "requirements.txt", "Dockerfile",
            "docker-compose.yml", "Makefile", "main.c", "util.cpp", "main.go", "main.py",
            "app.js", "index.html"})
  \cup at(<<"src">>, {"App.jsx"})
  \cup {written(<<"target", "release">>, "proj", TRUE)}

PkgChoices ==
  {NoPkg, [valid |-> TRUE, main |-> "app.js", start |-> "", dev |-> "node src/App.jsx"]}

hasPackageJson(files) == \E e \in files : e.name = "package.json"

ProjectInputs(maxFiles) ==
  {f \in {[files |-> F, dirs |-> {}, rev |-> r, mkContent |-> m, pkg |-> p, serverish |-> {}, denied |-> {}] :
            F \in upTo(ProjectPool, maxFiles), r \in BOOLEAN,
            m \in {"gcc -o app main.c", "g++ -o app main.c"}, p \in PkgChoices} :
     /\ ~hasMakefile(f.files) => f.mkContent = "gcc -o app main.c"
     /\ ~hasPackageJson(f.files) => f.pkg = NoPkg}

Init ==
  /\ fs \in ProjectInputs(MaxFiles)
  /\ pc = "start"
  /\ projectType = nullType
  /\ result = [success |-> FALSE]
  /\ threw = FALSE
  /\ events = <<>>
  /\ exitCode = "none"

\* debugProjectStructure only reads the tree and prints
DebugProjectStructure ==
  /\ pc = "start"
  /\ pc' = "detect"
  /\ UNCHANGED <<fs, projectType, result, threw, events, exitCode>>

\* a pipeline that goes on to the toolchain stage whatever the classifier returned
DetectProjectType_noAbort ==
  /\ pc = "detect"
  /\ projectType' = detectProjectType(fs)
  /\ events' = Append(events, log("Detected: " \o projectType' \o " project"))
  /\ pc' = "deps"
  /\ UNCHANGED <<fs, result, threw, exitCode>>

DetectProjectType ==
  /\ pc = "detect"
  /\ projectType' = detectProjectType(fs)
  /\ IF projectType' = nullType
     THEN /\ events' = Append(events, log("Could not auto-detect project type"))
          /\ pc' = "done"
     ELSE /\ events' = Append(events, log("Detected: " \o projectType' \o " project"))
          /\ pc' = "deps"
  /\ UNCHANGED <<fs, result, threw, exitCode>>

SkipDependencies ==
  /\ pc = "deps"
  /\ skipsDependencies(projectType)
  /\ pc' = "mkdir"
  /\ UNCHANGED <<fs, projectType, result, threw, events, exitCode>>

EnsureDependencies ==
  /\ pc = "deps"
  /\ ~skipsDependencies(projectType)
  /\ \E installed \in BOOLEAN, install \in BOOLEAN, code \in {0, 100} :
       LET o == ensureDependencies(projectType, installed, install, code)
       IN IF o.threw
          THEN /\ events' = events \o o.events \o <<log("Compilation error: " \o o.message)>>
               /\ pc' = "done"
          ELSE /\ events' = events \o o.events
               /\ pc' = "mkdir"
  /\ UNCHANGED <<fs, projectType, result, threw, exitCode>>

\* fs.ensureDir(projectBuildDir)
EnsureBuildDir ==
  /\ pc = "mkdir"
  /\ \E ok \in BOOLEAN :
       IF ok
       THEN /\ fs' = ensureDir(fs, buildDir)
            /\ events' = Append(events, Event("mkdir", "build", absolute(<<>>), "0"))
            /\ pc' = "compile"
       ELSE /\ fs' = fs
            /\ events' = Append(events, log("Compilation error: EACCES: permission denied, mkdir"))
            /\ pc' = "done"
  /\ UNCHANGED <<projectType, result, threw, exitCode>>

\* the branch on result.success, and the catch of compileProject
branchOnResult(o) ==
  /\ fs' = o.fs
  /\ threw' = o.threw
  /\ result' = o.value
  /\ IF o.threw
     THEN /\ events' = events \o o.events \o <<log("Compilation error: " \o o.message)>>
          /\ pc' = "done"
     ELSE IF o.value.success
     THEN /\ events' = events \o o.events \o <<log("Compilation successful!")>>
          /\ pc' = "run"
     ELSE /\ events' = events \o o.events \o <<log("Compilation failed!")>>
          /\ pc' = "done"

\* the call of compile() and what compileProject does with its result
Compile ==
  /\ pc = "compile"
  /\ \E env \in EnvsFor(projectType) : branchOnResult(compile(projectType, fs, env))
  /\ UNCHANGED <<projectType, exitCode>>

OfferToRun ==
  /\ pc = "run"
  /\ \E run \in BOOLEAN, platform \in {"linux", "darwin", "win32"}, codes \in [1..2 -> {0, 1}] :
       events' = events \o offerToRun(result, fs, run, platform, codes)
  /\ pc' = "done"
  /\ UNCHANGED <<fs, projectType, result, threw, exitCode>>

\* compileProject has returned: the build command has nothing left to do and the
\* process ends; nothing sets process.exitCode or calls process.exit
ProcessExit ==
  /\ pc = "done"
  /\ pc' = "exited"
  /\ exitCode' = "0"
  /\ UNCHANGED <<fs, projectType, result, threw, events>>

\* the steps of compileProject
Stage ==
  \/ DebugProjectStructure
  \/ DetectProjectType
  \/ SkipDependencies
  \/ EnsureDependencies
  \/ EnsureBuildDir
  \/ Compile
  \/ OfferToRun

Next == Stage \/ ProcessExit

Spec == Init /\ [][Next]_vars

(***************************************************************************)
(* compile() called on its own, with any language                          *)
(***************************************************************************)
MaxBuildFiles == 2

Languages == {"c", "cpp", "go", "rust", "nodejs", "python", "web", "react", "docker"}

InitBuild ==
  /\ fs \in ProjectInputs(MaxBuildFiles)
  /\ pc = "compile"
  /\ projectType \in Languages \cup {"fortran"}
  /\ result = [success |-> FALSE]
  /\ threw = FALSE
  /\ events = <<>>
  /\ exitCode = "none"

NextBuild == Compile

SpecBuild == InitBuild /\ [][NextBuild]_vars

(***************************************************************************)
(* The two scanners called on their own                                    *)
(***************************************************************************)
MaxScanFiles == 3

ScanPool ==
  at(<<>>, {"main.c", "UTIL.C", "main.py"})
  \cup at(<<"src">>, {"main.c", "io.cc"})
  \cup at(<<"src", "lib">>, {"main.c"})
  \cup at(<<".git">>, {"main.c"})
  \cup at(<<"node_modules">>, {"main.c"})
  \cup at(<<"node_modules", "lib">>, {"UTIL.C"})
  \cup at(<<"build">>, {"main.c"})
  \cup at(<<"target">>, {"main.c"})
  \cup at(<<"dist">>, {"main.c"})
  \cup at(<<"obj">>, {"main.c"})
  \cup at(<<"src", "obj">>, {"UTIL.C"})

ScanDirs == {<<>>, <<"src">>, <<"target">>}

\* the calls: findFilesRecursive(dir, extensions) and findFileRecursive(dir, fileName)
ScanCalls ==
  {[op |-> "findFilesRecursive", dir |-> d, extensions |-> x, fileName |-> "", files |-> <<>>,
    found |-> nullPath] : d \in ScanDirs, x \in {{".c"}, {".cc", ".c"}, {".py"}}}
  \cup {[op |-> "findFileRecursive", dir |-> d, extensions |-> {}, fileName |-> n, files |-> <<>>,
         found |-> nullPath] : d \in ScanDirs, n \in {"main.c", "UTIL.C"}}

InitScan ==
  /\ fs \in {[files |-> F, dirs |-> {}, rev |-> r, mkContent |-> "", pkg |-> NoPkg, serverish |-> {}, denied |-> {}] :
              F \in upTo(ScanPool, MaxScanFiles), r \in BOOLEAN}
  /\ result \in ScanCalls
  /\ pc = "call"
  /\ projectType = nullType
  /\ threw = FALSE
  /\ events = <<>>
  /\ exitCode = "none"

FindFiles ==
  /\ pc = "call"
  /\ result.op = "findFilesRecursive"
  /\ result' = [result EXCEPT !.files = findFilesRecursive(fs, result.dir, result.extensions)]
  /\ pc' = "returned"
  /\ UNCHANGED <<fs, projectType, threw, events, exitCode>>

FindFile ==
  /\ pc = "call"
  /\ result.op = "findFileRecursive"
  /\ result' = [result EXCEPT !.found = findFileRecursive(fs, result.dir, result.fileName)]
  /\ pc' = "returned"
  /\ UNCHANGED <<fs, projectType, threw, events, exitCode>>

NextScan == FindFiles \/ FindFile

SpecScan == InitScan /\ [][NextScan]_vars

\* the scanners on trees in which one directory cannot be read or one file cannot be stat-ed
InitFaults ==
  /\ fs \in {[files |-> F, dirs |-> {}, rev |-> r, mkContent |-> "", pkg |-> NoPkg, serverish |-> {},
               denied |-> {q}] :
              F \in upTo(ScanPool, MaxScanFiles), r \in BOOLEAN,
              q \in {<<>>, <<"src">>, <<"src", "lib">>, <<"main.c">>, <<"src", "main.c">>}}
  /\ result \in {c \in ScanCalls : c.dir \in {<<>>, <<"src">>}}
  /\ pc = "call"
  /\ projectType = nullType
  /\ threw = FALSE
  /\ events = <<>>
  /\ exitCode = "none"

SpecFaults == InitFaults /\ [][NextScan]_vars

(***************************************************************************)
(* The entry-point search of the interpreted languages: compile() called   *)
(* on Node.js and Python projects                                          *)
(***************************************************************************)
MaxEntryFiles == 3

EntryPool(language) ==
  IF language = "nodejs"
  THEN at(<<>>, {"package.json", "app.js", "server.js", "util.js"})
       \cup at(<<"src">>, {"package.json", "index.js", "util.js"})
       \cup at(<<"lib">>, {"main.js"})
       \cup at(<<"public">>, {"client.js"})
  ELSE at(<<>>, {"main.py", "util.py", "server.py"})
       \cup at(<<"src">>, {"app.py", "index.py"})
       \cup at(<<"lib">>, {"remainder.py"})
       \cup at(<<".git">>, {"main.py"})

\* package.json as fs.readJson gives it: unparsable, or main, scripts.start and scripts.dev
EntryPkgChoices ==
  {NoPkg} \cup {[valid |-> TRUE, main |-> m, start |-> st, dev |-> d] :
                  m \in {"", "index.js", "src/index.js", "lib", "gone.js"},
                  st \in {"", "node server.js", "nodemon app.js"},
                  d \in {"", "node  ./src/util.js"}}

InitEntry ==
  /\ projectType \in {"nodejs", "python"}
  /\ fs \in {f \in {[files |-> F, dirs |-> {}, rev |-> r, mkContent |-> "gcc -o app main.c", pkg |-> p,
                     serverish |-> S, denied |-> {}] :
                      F \in upTo(EntryPool(projectType), MaxEntryFiles), r \in BOOLEAN,
                      p \in EntryPkgChoices,
                      S \in {{}} \cup {{fullPath(e)} : e \in EntryPool(projectType)}} :
              /\ ~hasPackageJson(f.files) => f.pkg = NoPkg
              /\ \A q \in f.serverish : isRegularFile(f, q) /\ extname(basename(q)) = ".js"}
  /\ pc = "compile"
  /\ result = [success |-> FALSE]
  /\ threw = FALSE
  /\ events = <<>>
  /\ exitCode = "none"

SpecEntry == InitEntry /\ [][NextBuild]_vars

(***************************************************************************)
(* clean, run again and again on one project                               *)
(***************************************************************************)
\* fs.remove: the path and everything below it
remove(f, p) ==
  [f EXCEPT !.files = {e \in @ : ~isPrefix(p, fullPath(e))},
            !.dirs = {d \in @ : ~isPrefix(p, d)}]

\* what 'make clean' removes when the Makefile has a clean rule
CleanProducts == {"app", "main.o"}

\* 'make clean' in makeDir: no clean rule fails and touches nothing; 'rm -f' removes the
\* products and succeeds; a plain 'rm' removes those present and fails when one is missing
makeClean(f, makeDir) ==
  LET products == {Append(makeDir, n) : n \in CleanProducts}
      swept == [f EXCEPT !.files = {e \in @ : fullPath(e) \notin products}]
  IN IF ~includes(f.mkContent, "clean:") THEN [status |-> "fail", fs |-> f]
     ELSE IF includes(f.mkContent, "rm -f") THEN [status |-> "ok", fs |-> swept]
     ELSE [status |-> IF \A q \in products : isRegularFile(f, q) THEN "ok" ELSE "fail", fs |-> swept]

removeBuildDir(f) ==
  IF pathExists(f, buildDir)
  THEN Return("", remove(f, buildDir), <<log("Build directory cleaned: " \o pathString(buildDir))>>)
  ELSE Return("", f, <<log("Build directory does not exist: " \o pathString(buildDir))>>)

commonBuildDirs == <<"target", "dist", "node_modules", "__pycache__", ".pytest_cache">>

RECURSIVE removeCommon(_, _, _)
removeCommon(f, ev, i) ==
  IF i > Len(commonBuildDirs) THEN Return("", f, ev)
  ELSE IF pathExists(f, <<commonBuildDirs[i]>>)
  THEN removeCommon(remove(f, <<commonBuildDirs[i]>>), Append(ev, log("Cleaned: " \o commonBuildDirs[i])), i + 1)
  ELSE removeCommon(f, ev, i + 1)

\* the try around execAsync('make clean'): a failure is caught and dropped when swallow holds
cleanMakefile(f, ev, makefile, swallow) ==
  IF makefile = nullPath THEN Return("", f, ev)
  ELSE LET r == makeClean(f, dirname(makefile))
           ev1 == Append(ev, Event("exec", "make clean", absolute(dirname(makefile)), exitOf(r.status)))
       IN IF r.status = "ok" THEN Return("", r.fs, Append(ev1, log("Make clean completed")))
          ELSE IF swallow THEN Return("", r.fs, ev1)
          ELSE Throw("Command failed: make clean", r.fs, ev1)

afterBuildDir(o, swallow) == cleanMakefile(o.fs, o.events, findMakefile(o.fs), swallow)

\* a clean whose 'make clean' is not wrapped in a try
clean_noCatch(f) ==
  LET o1 == removeBuildDir(f) IN afterBuildDir(removeCommon(o1.fs, o1.events, 1), FALSE)

clean(f) ==
  LET o1 == removeBuildDir(f) IN afterBuildDir(removeCommon(o1.fs, o1.events, 1), TRUE)

MaxCleanFiles == 3
MaxCleans == 2

CleanPool ==
  at(<<>>, {"main.c", "Makefile", "app", "main.o"})
  \cup at(<<"build">>, {"app", "Makefile"})
  \cup at(<<"target">>, {"proj"})
  \cup at(<<"dist">>, {"app.js"})
  \cup at(<<"node_modules">>, {"package.json"})
  \cup at(<<"__pycache__">>, {"main.py"})
  \cup at(<<".pytest_cache">>, {"README.md"})
  \cup at(<<"src">>, {"makefile", "main.o", "app"})

CleanRules == {"gcc -o app main.c", "clean: rm -f app main.o", "clean: rm app main.o"}

InitClean ==
  /\ fs \in {f \in {[files |-> F, dirs |-> D, rev |-> r, mkContent |-> m, pkg |-> NoPkg, serverish |-> {}, denied |-> {}] :
                      F \in upTo(CleanPool, MaxCleanFiles), D \in {{}, {buildDir}}, r \in BOOLEAN,
                      m \in CleanRules} :
              ~hasMakefile(f.files) => f.mkContent = "gcc -o app main.c"}
  /\ pc = "clean"
  /\ projectType = nullType
  /\ result = [runs |-> 0]
  /\ threw = FALSE
  /\ events = <<>>
  /\ exitCode = "none"

\* one run of the clean command; events keeps the output of all the runs
Clean ==
  /\ pc = "clean"
  /\ result.runs < MaxCleans
  /\ LET o == clean(fs)
     IN /\ fs' = o.fs
        /\ threw' = o.threw
        /\ events' = events \o o.events
  /\ result' = [runs |-> result.runs + 1]
  /\ UNCHANGED <<pc, projectType, exitCode>>

NextClean == Clean

SpecClean == InitClean /\ [][NextClean]_vars

\* every name of the tree has its place in the listing order
NamesListed ==
  /\ \A e \in fs.files : seqIncludes(DirentOrder, e.name) /\ \A i \in 1..Len(e.dir) : seqIncludes(DirentOrder, e.dir[i])
  /\ \A d \in fs.dirs : \A i \in 1..Len(d) : seqIncludes(DirentOrder, d[i])

(***************************************************************************)
(* Claims                                                                  *)
(***************************************************************************)
\* the config markers in their declaration order, with the type each is mapped to
DeclaredMarkers ==
  << <<"Cargo.toml", "rust">>, <<"go.mod", "go">>, <<"package.json", "nodejs">>,
     <<"requirements.txt", "python">>, <<"setup.py", "python">>, <<"pyproject.toml", "python">>,
     <<"vite.config.js", "react">>, <<"vite.config.ts", "react">>,
     <<"Dockerfile", "docker">>, <<"docker-compose.yml", "docker">> >>
markerName(i) == DeclaredMarkers[i][1]
markerType(i) == DeclaredMarkers[i][2]
Markers == 1..Len(DeclaredMarkers)

\* the name occurs somewhere under rootDir
occurs(n) == \E e \in fs.files : e.name = n

\* a directory the named-file lookup walks into: no component is hidden or one of
\* node_modules, build, target, dist
lookupVisits(dir) ==
  \A i \in 1..Len(dir) :
     ~(startsWith(dir[i], ".") \/ dir[i] \in {"node_modules", "build", "target", "dist"})

\* the name occurs in a directory the lookup walks into
occursVisibly(n) == \E e \in fs.files : e.name = n /\ lookupVisits(e.dir)

RecognizedExtensions ==
  {".html", ".css", ".js", ".jsx", ".ts", ".tsx", ".c", ".cpp", ".cc", ".cxx", ".go", ".rs",
   ".mjs", ".cjs", ".py"}
NativeBuildNames == {"Makefile", "makefile", "CMakeLists.txt", "configure", "autogen.sh"}
hasSourceExtension(e) == toLowerCase(extname(e.name)) \in RecognizedExtensions

\* C1 (as stated): when exactly one config marker name occurs anywhere under rootDir,
\* detectProjectType returns the type mapped to it, whatever else is in the tree.
C1_AsStated ==
  pc = "classified" =>
    \A i \in Markers :
      (occurs(markerName(i)) /\ \A j \in Markers \ {i} : ~occurs(markerName(j)))
        => projectType = markerType(i)

\* C1 (amended): when exactly one config marker name occurs in a directory the lookup
\* walks into (not below a hidden directory, node_modules, build, target or dist),
\* detectProjectType returns the type mapped to it, whatever else is in the tree.
C1_SingleVisibleMarker ==
  pc = "classified" =>
    \A i \in Markers :
      (occursVisibly(markerName(i)) /\ \A j \in Markers \ {i} : ~occursVisibly(markerName(j)))
        => projectType = markerType(i)

\* C1 witness: a single marker below the root, beside a source file and a native build file
C1_Witness ==
  /\ pc = "classified"
  /\ \E i \in Markers :
       /\ \A j \in Markers : occursVisibly(markerName(j)) <=> j = i
       /\ \A e \in fs.files : e.name = markerName(i) => Len(e.dir) > 0
       /\ projectType = markerType(i)
  /\ \E e \in fs.files : hasSourceExtension(e) /\ lookupVisits(e.dir)
  /\ \E e \in fs.files : e.name \in NativeBuildNames

firstIn(S) == CHOOSE i \in S : \A j \in S : i <= j

\* C2 (as stated): when two or more different config markers are present in the tree, the
\* result is the type of the one declared first, whatever their depth and listing order.
C2_AsStated ==
  pc = "classified" =>
    LET present == {i \in Markers : occurs(markerName(i))}
    IN Cardinality(present) >= 2 => projectType = markerType(firstIn(present))

\* C2 (amended): when two or more different config markers are present in directories the
\* lookup walks into, the result is the type of the one declared first among them,
\* whatever their depth and listing order.
C2_DeclarationOrder ==
  pc = "classified" =>
    LET present == {i \in Markers : occursVisibly(markerName(i))}
    IN Cardinality(present) >= 2 => projectType = markerType(firstIn(present))

\* C2 witness: the marker declared first lies deeper than the other one and is listed
\* after it, and still decides
C2_Witness ==
  /\ pc = "classified"
  /\ fs.rev
  /\ \E i, j \in Markers :
       /\ i < j /\ markerType(i) # markerType(j)
       /\ \E e \in fs.files : e.name = markerName(j) /\ e.dir = <<>>
       /\ \E e \in fs.files : e.name = markerName(i) /\ Len(e.dir) = 2
       /\ \A e \in fs.files : e.name = markerName(i) => Len(e.dir) = 2
       /\ projectType = markerType(i)

\* C3: a tree with no marker file (config markers, Makefile/makefile, CMakeLists.txt,
\* configure, autogen.sh) and no file with a recognized source extension is classified
\* as nothing (null).
C3_NothingRecognized ==
  pc = "classified" =>
    ((\A e \in fs.files :
         /\ e.name \notin {markerName(i) : i \in Markers} \cup NativeBuildNames
         /\ ~hasSourceExtension(e))
      => projectType = nullType)

\* C3 witness: a non-empty tree with a conventional source directory and nothing recognized
C3_Witness ==
  /\ pc = "classified"
  /\ pathExists(fs, <<"src">>)
  /\ \A e \in fs.files :
       /\ e.name \notin {markerName(i) : i \in Markers} \cup NativeBuildNames
       /\ ~hasSourceExtension(e)
  /\ projectType = nullType

returned == pc \in {"run", "done"}
eventsWhere(kind, what) == {i \in 1..Len(events) : events[i].kind = kind /\ events[i].what = what}
eventsOfKind(kind) == {i \in 1..Len(events) : events[i].kind = kind}

\* C4: compile() never lets an exception escape, whatever the type (a supported one or
\* not) and whichever build step fails; a failure comes back as a result with
\* success = false and an error message.
C4_CompileNeverThrows ==
  pc # "compile" =>
    /\ ~threw
    /\ "success" \in DOMAIN result
    /\ result.success = FALSE => ("error" \in DOMAIN result /\ result.error # "")

\* C4 witness: an unsupported type comes back as a failed result
C4_Witness ==
  /\ returned /\ projectType = "fortran" /\ ~threw
  /\ result = [success |-> FALSE, error |-> "Unsupported language: fortran"]

\* C5: a result of compile() with success = true carries a non-empty output and a non-empty
\* executable; one with success = false carries an error message and neither an output
\* nor an executable.
C5_ResultShape ==
  (returned /\ ~threw) =>
    IF result.success
    THEN /\ {"output", "executable"} \subseteq DOMAIN result
         /\ result.output # "" /\ result.executable # ""
    ELSE /\ "error" \in DOMAIN result /\ result.error # ""
         /\ "output" \notin DOMAIN result /\ "executable" \notin DOMAIN result

\* C5 witness: a prepared component-framework project: the command is the artifact
C5_Witness ==
  /\ pc = "run" /\ projectType = "react" /\ result.success
  /\ result.executable = "npm run dev" /\ result.output = "/proj"

toolchainStages == {"probe", "spawn", "exec", "mkdir", "copy", "prompt"}

\* C6: when detectProjectType returns null, compileProject reports that the type could
\* not be detected and ends: no toolchain probe or install, no build directory, no
\* compiler or build tool, no run prompt.
C6_AbortsOnUnknown ==
  (pc \notin {"start", "detect"} /\ projectType = nullType) =>
    /\ pc \in {"done", "exited"}
    /\ events = <<log("Could not auto-detect project type")>>
    /\ \A i \in 1..Len(events) : events[i].kind \notin toolchainStages
    /\ fs.dirs = {}
    /\ ~ENABLED Stage

\* C6 witness: a tree with files in it that no rule recognizes, after the run ended
C6_Witness ==
  /\ pc = "done" /\ projectType = nullType /\ fs.files # {}
  /\ Len(events) = 1

refusedAt(i) ==
  events[i].kind = "prompt" /\ startsWith(events[i].what, "Install ") /\ events[i].outcome = "no"
installFailedAt(i) ==
  events[i].kind = "spawn" /\ startsWith(events[i].what, "sudo apt install") /\ events[i].outcome = "1"

\* C7: once the user refused the installation of the missing package, or the installer
\* exited non-zero, ensureDependencies has raised and compileProject stops: the error is
\* reported and no build directory is made, no compiler, build-system or
\* dependency-install command is issued and no run prompt is shown.
C7_ToolchainMissingAborts ==
  \A i \in 1..Len(events) :
    (refusedAt(i) \/ installFailedAt(i)) =>
      /\ pc \in {"done", "exited"}
      /\ Len(events) = i + 1
      /\ events[i + 1].kind = "log"
      /\ events[i + 1].what =
           "Compilation error: "
             \o (IF refusedAt(i) THEN "Required package " \o packageOf(projectType) \o " is not installed"
                 ELSE "Failed to install " \o packageOf(projectType))
      /\ \A j \in 1..Len(events) :
           /\ events[j].kind \notin {"exec", "mkdir", "copy"}
           /\ events[j].kind = "prompt" => startsWith(events[j].what, "Install ")
           /\ events[j].kind = "spawn" => startsWith(events[j].what, "sudo apt install")
      /\ fs.dirs = {}
      /\ ~ENABLED Stage

\* C7 witness: the installer was started and failed
C7_Witness ==
  /\ pc = "done"
  /\ \E i \in 1..Len(events) : installFailedAt(i)

pastDependencies == pc \in {"mkdir", "compile", "run", "done"} /\ projectType # nullType
probed == eventsOfKind("probe") # {}

\* C8 (as stated): the toolchain check runs only for C, C++, Go and Rust and is
\* bypassed for Node.js, Python, static-web, component-framework-web and container.
C8_AsStated ==
  pastDependencies => (probed <=> projectType \in {"c", "cpp", "go", "rust"})

\* C8 (amended): the toolchain check is bypassed entirely for static-web,
\* component-framework-web and container; it runs for C, C++, Go and Rust and also for
\* Node.js and Python.
C8_BypassedForWebAndContainer ==
  pastDependencies =>
    /\ probed <=> projectType \in {"c", "cpp", "go", "rust", "nodejs", "python"}
    /\ projectType \in {"web", "react", "docker"} =>
         \A i \in 1..Len(events) :
           /\ events[i].kind # "probe"
           /\ ~startsWith(events[i].what, "Install ")
           /\ ~startsWith(events[i].what, "sudo apt install")

\* C8 witness: a container project reaches the build directory stage unprobed
C8_Witness ==
  /\ pc = "mkdir" /\ projectType = "docker"
  /\ eventsOfKind("probe") = {}

isNative == projectType \in {"c", "cpp"}
makeFailed == \E i \in eventsWhere("exec", "make") : events[i].outcome = "1"
makeFoundNothing ==
  /\ \E i \in eventsWhere("exec", "make") : events[i].outcome = "0"
  /\ eventsOfKind("copy") = {}
compilerRuns == eventsWhere("exec", IF projectType = "c" THEN "gcc" ELSE "g++")
familySources ==
  findFilesRecursive(fs, <<>>, IF projectType = "c" THEN {".c"} ELSE {".cpp", ".cc", ".cxx"})
canonicalOutput == <<"build", "proj">>
directCompilationFailed ==
  \/ Len(familySources) = 0
  \/ \E i \in compilerRuns : events[i].outcome = "1"
  \/ ~pathExists(fs, canonicalOutput)

\* C9: in a native build with a Makefile, when make exits non-zero, or exits zero with no
\* executable found where the build looks for one, the build goes on to the direct
\* compilation of all sources of the family, and the result has success = false only
\* when that direct compilation fails (no source file, compiler error, no output).
C9_MakeFallsBack ==
  (returned /\ isNative /\ (makeFailed \/ makeFoundNothing)) =>
    /\ Len(familySources) > 0 => compilerRuns # {}
    /\ result.success = FALSE <=> directCompilationFailed
    /\ result.success = FALSE /\ Len(familySources) = 0 =>
         result.error \in {"No .c files found in project directory",
                           "No C++ files found in project directory"}

\* C9 witness: make exits zero, leaves no executable, and the direct compilation succeeds
C9_Witness ==
  /\ pc = "run" /\ isNative /\ makeFoundNothing
  /\ compilerRuns # {} /\ result.success
  /\ isExecutable(fs, canonicalOutput)

rustOutput == <<"build", "proj-rust">>
cargoSucceeded == \E i \in eventsWhere("exec", "cargo build --release") : events[i].outcome = "0"
\* the executable-flagged files the build looks at under target/release: no extension,
\* not below a skipped directory
releaseCandidates ==
  {e \in fs.files :
     /\ e.x /\ isPrefix(releaseDir, e.dir) /\ extname(e.name) = ""
     /\ \A i \in (Len(releaseDir) + 1)..Len(e.dir) : ~scanSkips(e.dir[i])}

\* C10: when cargo build --release succeeds but target/release/<project name> does not
\* exist and no executable-flagged file is found under target/release, the result has
\* success = false with the error 'Could not find Rust build output' and nothing is
\* copied to the canonical output path.
C10_RustArtifactNotFound ==
  (returned /\ projectType = "rust" /\ cargoSucceeded
     /\ ~pathExists(fs, <<"target", "release", "proj">>) /\ releaseCandidates = {}) =>
    /\ result = [success |-> FALSE, error |-> "Could not find Rust build output"]
    /\ eventsOfKind("copy") = {}
    /\ ~pathExists(fs, rustOutput)

\* C10 witness: cargo succeeded and left only a library under target/release
C10_Witness ==
  /\ pc = "done" /\ projectType = "rust" /\ cargoSucceeded
  /\ \E e \in fs.files : e.dir = releaseDir /\ e.name = "libproj.rlib"
  /\ ~pathExists(fs, <<"target", "release", "proj">>)
  /\ result.success = FALSE

mkdirDone == \E i \in eventsOfKind("mkdir") : events[i].outcome = "0"
compileReturned == returned /\ mkdirDone
\* the files of the project, without what the build wrote under build/
sourceFiles == {e \in fs.files : ~isPrefix(buildDir, e.dir)}
goOnlyTree ==
  \E g \in sourceFiles :
    /\ extname(g.name) = ".go"
    /\ sourceFiles = {[dir |-> <<>>, name |-> "go.mod", x |-> FALSE], g}
goOutput == <<"build", "proj">>
goCommand == "go build -o \"/proj/build/proj\""

\* C11: a tree holding only go.mod and one .go file is detected as Go; the build issues
\* go build from the project root with -o <projectRoot>/build/<project name> and no
\* other command; when that command exits zero and the file is there, the result is
\* success = true with output and executable at that path, and the file is executable.
C11_GoRoundTrip ==
  goOnlyTree =>
    /\ pc \notin {"start", "detect"} => projectType = "go"
    /\ compileReturned =>
         /\ eventsOfKind("exec") # {}
         /\ \A i \in eventsOfKind("exec") :
              /\ events[i].what = goCommand
              /\ events[i].cwd = <<"proj">>
         /\ ((\E i \in eventsOfKind("exec") : events[i].outcome = "0") /\ pathExists(fs, goOutput))
              => /\ result.success
                 /\ result.output = "/proj/build/proj"
                 /\ result.executable = "/proj/build/proj"
                 /\ isExecutable(fs, goOutput)

\* C11 witness: the round trip done, the artifact in place
C11_Witness ==
  /\ goOnlyTree /\ pc = "run" /\ projectType = "go"
  /\ result.success /\ isExecutable(fs, goOutput)
  /\ \E i \in eventsOfKind("exec") : events[i].what = goCommand /\ events[i].outcome = "0"

\* a directory the extension scan walks into: no component is hidden or one of
\* node_modules, build, target, dist, obj
scanVisits(dir) ==
  \A i \in 1..Len(dir) :
     ~(startsWith(dir[i], ".") \/ dir[i] \in {"node_modules", "build", "target", "dist", "obj"})
\* the tree has a file of one of the extensions where the scan looks
hasVisible(extensions) ==
  \E e \in fs.files : scanVisits(e.dir) /\ toLowerCase(extname(e.name)) \in extensions
CppExtensions == {".cpp", ".cc", ".cxx"}
noVisibleMarker == \A i \in Markers : ~occursVisibly(markerName(i))
\* no config marker, no HTML, C and C++ sources side by side, and a Makefile
mixedNativeWithMakefile ==
  /\ pc = "classified"
  /\ noVisibleMarker
  /\ ~hasVisible({".html"})
  /\ hasVisible({".c"}) /\ hasVisible(CppExtensions)
  /\ (occursVisibly("Makefile") \/ occursVisibly("makefile"))
makefileHintsCpp == includes(fs.mkContent, "g++") \/ includes(fs.mkContent, ".cpp")

\* C12: a tree with no config marker and no HTML file, with both .c and C++ files and a
\* Makefile whose content contains 'g++' or '.cpp', is classified as C++, not C.
C12_MakefileHintGivesCpp ==
  (mixedNativeWithMakefile /\ makefileHintsCpp) => projectType = "cpp"

\* C12 witness: the hint is the '.cpp' of a file name, the compiler named is not g++
C12_Witness ==
  /\ mixedNativeWithMakefile
  /\ includes(fs.mkContent, ".cpp") /\ ~includes(fs.mkContent, "g++")
  /\ projectType = "cpp"

\* C13 (as stated): with both C and C++ sources under a Makefile that names neither 'g++'
\* nor '.cpp', the project is classified as C++.
C13_AsStated ==
  (mixedNativeWithMakefile /\ ~makefileHintsCpp) => projectType = "cpp"

\* C13 (amended): with both C and C++ sources under a Makefile that names neither 'g++'
\* nor '.cpp', the project is classified as C.
C13_NoHintGivesC ==
  (mixedNativeWithMakefile /\ ~makefileHintsCpp) => projectType = "c"

\* C13 witness: a mixed tree whose Makefile only names gcc
C13_Witness ==
  /\ mixedNativeWithMakefile
  /\ fs.mkContent = "gcc -o app main.c"
  /\ projectType = "c"

\* HTML where the scan looks, no component file, no config marker, and neither
\* node_modules nor package.json directly in rootDir
plainMarkupTree ==
  /\ pc = "classified"
  /\ noVisibleMarker
  /\ hasVisible({".html"})
  /\ ~hasVisible({".jsx", ".tsx"})
  /\ ~pathExists(fs, <<"node_modules">>)
  /\ ~pathExists(fs, <<"package.json">>)

\* C14: a tree with HTML files, no JSX/TSX file, no config marker and no package.json or
\* node_modules at the root is classified as static-web (web), never as
\* component-framework-web (react), whatever else it holds.
C14_StaticWeb ==
  plainMarkupTree => projectType = "web"

\* C14 witness: index.html beside style.css and a script
C14_Witness ==
  /\ plainMarkupTree
  /\ \E e \in fs.files : e.dir = <<>> /\ e.name = "index.html"
  /\ \E e \in fs.files : e.dir = <<>> /\ e.name = "style.css"
  /\ \E e \in fs.files : e.dir = <<>> /\ e.name = "app.js"
  /\ projectType = "web"

scanReturned == pc = "returned" /\ result.op = "findFilesRecursive"
\* the part of a path below the directory the call was given
below(dir, p) == SubSeq(p, Len(dir) + 1, Len(p))
isExcludedName(n) ==
  startsWith(n, ".") \/ n \in {"node_modules", "build", "target", "dist", "obj"}
\* the file lies inside an excluded directory below the directory of the call
insideExcluded(dir, e) == \E k \in (Len(dir) + 1)..Len(e.dir) : isExcludedName(e.dir[k])
resultPaths == {result.files[i] : i \in 1..Len(result.files)}

\* C15: findFilesRecursive never descends into a directory below rootDir whose name
\* starts with '.' or is node_modules, build, target, dist or obj: no file lying inside
\* one, at any depth, is in the result; every file of a matching extension outside them
\* is, and the extension is compared without regard to case.
C15_ScanExclusions ==
  scanReturned =>
    \A e \in fs.files :
      isPrefix(result.dir, e.dir) =>
        (Append(e.dir, e.name) \in resultPaths
           <=> (~insideExcluded(result.dir, e) /\ toLowerCase(extname(e.name)) \in result.extensions))

\* C15 witness: a matching file two levels down inside an excluded directory is left
\* out, and an upper-case extension outside is taken
C15_Witness ==
  /\ scanReturned /\ result.dir = <<>> /\ result.extensions = {".c"}
  /\ \E e \in fs.files : e.dir = <<"node_modules", "lib">> /\ e.name = "UTIL.C"
  /\ <<"node_modules", "lib", "UTIL.C">> \notin resultPaths
  /\ <<"UTIL.C">> \in resultPaths

lookupReturned == pc = "returned" /\ result.op = "findFileRecursive"

\* C16: findFileRecursive(rootDir, name) returns the entry directly in rootDir whenever
\* there is one of that name, even when a same-named file lies in a subdirectory that is
\* listed, and would be walked, before it.
C16_RootFirst ==
  lookupReturned =>
    ((\E e \in fs.files : e.dir = result.dir /\ e.name = result.fileName)
       => result.found = Append(result.dir, result.fileName))

\* C16 witness: src is listed before main.c and holds a main.c too; the one in rootDir
\* is returned
C16_Witness ==
  /\ lookupReturned /\ result.dir = <<>> /\ result.fileName = "main.c" /\ ~fs.rev
  /\ readdir(fs, <<>>) = <<"src", "main.c">>
  /\ \E e \in fs.files : e.dir = <<"src">> /\ e.name = "main.c"
  /\ result.found = <<"main.c">>

isOpenCommand(what) ==
  startsWith(what, "xdg-open ") \/ startsWith(what, "open ") \/ startsWith(what, "start ")
\* a child process of the run stage: a spawn that is not the package installer, or the
\* browser open command
runChildAt(i) ==
  \/ events[i].kind = "spawn" /\ ~startsWith(events[i].what, "sudo apt install")
  \/ events[i].kind = "exec" /\ isOpenCommand(events[i].what)
runPromptAt(j) == events[j].kind = "prompt" /\ ~startsWith(events[j].what, "Install ")

\* C17: a child process of the run stage (binary, interpreter, dev server, browser open
\* command, container steps) is spawned only after a build result with success = true
\* was reported and the run prompt of this invocation was answered yes; a declined
\* prompt is followed by no child process.
C17_RunIsConfirmed ==
  /\ \A i \in 1..Len(events) :
       runChildAt(i) =>
         /\ result.success = TRUE
         /\ \E j \in 1..(i - 1) :
              /\ runPromptAt(j) /\ events[j].outcome = "yes"
              /\ \E k \in 1..(j - 1) : events[k] = log("Compilation successful!")
  /\ \A j \in 1..Len(events) :
       (runPromptAt(j) /\ events[j].outcome = "no") =>
         /\ \A i \in 1..Len(events) : ~runChildAt(i)
         /\ j = Len(events)

\* C17 witness: a container project, the prompt answered yes, both steps spawned
C17_Witness ==
  /\ pc = "done" /\ projectType = "docker"
  /\ \E j \in 1..Len(events) : runPromptAt(j) /\ events[j].outcome = "yes"
  /\ Cardinality({i \in 1..Len(events) : runChildAt(i)}) = 2

buildSucceeded == \E k \in 1..Len(events) : events[k] = log("Compilation successful!")
detectionFailed == \E k \in 1..Len(events) : events[k] = log("Could not auto-detect project type")
toolchainMissing == \E i \in 1..Len(events) : refusedAt(i) \/ installFailedAt(i)
buildFailed == \E k \in 1..Len(events) : events[k] = log("Compilation failed!")

\* C18 (as stated): the build invocation ends with exit code 0 when the build succeeded
\* and with a non-zero exit code when detection failed, the toolchain was missing or
\* the build result has success = false.
C18_AsStated ==
  pc = "exited" =>
    /\ buildSucceeded => exitCode = "0"
    /\ (detectionFailed \/ toolchainMissing \/ buildFailed) => exitCode # "0"

\* C19: clean run twice in a row on one project never raises an error, also when
\* 'make clean' fails; the second run finds no build directory, says that it does not
\* exist, and leaves the tree as the first run left it.
outputOfThisRun == SubSeq(events', Len(events) + 1, Len(events'))
buildDirMissing == log("Build directory does not exist: " \o pathString(buildDir))
buildDirCleaned == log("Build directory cleaned: " \o pathString(buildDir))
makeCleanFailed == \E i \in 1..Len(events) : events[i].what = "make clean" /\ events[i].outcome = "1"

C19_CleanIsIdempotent ==
  [][/\ ~threw'
     /\ result.runs >= 1 =>
          /\ ~pathExists(fs, buildDir)
          /\ seqIncludes(outputOfThisRun, buildDirMissing)
          /\ ~seqIncludes(outputOfThisRun, buildDirCleaned)
          /\ fs' = fs]_vars

\* two runs are over: the first removed the build directory and swept products with
\* 'make clean', the second found both gone and its 'make clean' failed
C19_Witness ==
  /\ pc = "clean"
  /\ result = [runs |-> 2]
  /\ ~threw
  /\ seqIncludes(events, buildDirCleaned)
  /\ seqIncludes(events, buildDirMissing)
  /\ seqIncludes(events, log("Make clean completed"))
  /\ makeCleanFailed

\* the families of rule 4 in the order they are checked, and the files counted for each
CountedFamilies == <<"c", "cpp", "go", "rust", "nodejs", "python", "react", "web">>
extensionsOf(family) ==
  CASE family = "c" -> {".c"}
    [] family = "cpp" -> CppExtensions
    [] family = "go" -> {".go"}
    [] family = "rust" -> {".rs"}
    [] family = "nodejs" -> {".js", ".mjs", ".cjs"}
    [] family = "python" -> {".py"}
    [] family = "react" -> {".jsx", ".tsx"}
    [] family = "web" -> {".html"}
familyCount(k) ==
  Cardinality({e \in fs.files : scanVisits(e.dir)
                                  /\ toLowerCase(extname(e.name)) \in extensionsOf(CountedFamilies[k])})
Families == 1..Len(CountedFamilies)

\* rules 1 to 3 matched nothing: no config marker; no HTML with a component file or with a
\* root free of node_modules and package.json; no Makefile beside native sources; no
\* other native build descriptor
rulesOneToThreeSilent ==
  /\ pc = "classified"
  /\ noVisibleMarker
  /\ ~(hasVisible({".html"})
        /\ (hasVisible({".jsx", ".tsx"})
             \/ (~pathExists(fs, <<"node_modules">>) /\ ~pathExists(fs, <<"package.json">>))))
  /\ ~((occursVisibly("Makefile") \/ occursVisibly("makefile"))
        /\ (hasVisible({".c"}) \/ hasVisible(CppExtensions)))
  /\ \A n \in {"CMakeLists.txt", "configure", "autogen.sh"} : ~occursVisibly(n)

\* C20: when rules 1 to 3 matched nothing, the classifier returns the family with the
\* greatest file count, the first of them in the order c, cpp, go, rust, nodejs, python,
\* react, web when several share it; when every family has no file the count gives no
\* result (and the directory rule that follows finds no native file either).
C20_FileCount ==
  rulesOneToThreeSilent =>
    IF \A k \in Families : familyCount(k) = 0 THEN projectType = nullType
    ELSE \E k \in Families :
           /\ projectType = CountedFamilies[k]
           /\ \A j \in Families : familyCount(j) <= familyCount(k)
           /\ \A j \in Families : j < k => familyCount(j) < familyCount(k)

\* C20 witness: two families share the greatest count, and a third has fewer files
C20_Witness ==
  /\ rulesOneToThreeSilent
  /\ \E k, j \in Families :
       /\ k < j
       /\ familyCount(k) = familyCount(j)
       /\ familyCount(k) > 0
       /\ \A i \in Families : familyCount(i) <= familyCount(k)
       /\ projectType = CountedFamilies[k]

\* the directory of the package.json the lookup finds: the root before src
manifestDir == IF isRegularFile(fs, <<"package.json">>) THEN <<>> ELSE <<"src">>
manifestRead ==
  /\ isRegularFile(fs, <<"package.json">>) \/ isRegularFile(fs, <<"src", "package.json">>)
  /\ fs.pkg.valid
\* the file a script invokes with 'node <file>'
invokedFile(script) ==
  CASE script = "node server.js" -> "server.js"
    [] script = "node  ./src/util.js" -> "./src/util.js"
    [] OTHER -> ""
consultedScript == IF fs.pkg.start # "" THEN fs.pkg.start ELSE fs.pkg.dev
declaredMain == joinRelative(manifestDir, fs.pkg.main)
scriptMain == joinRelative(manifestDir, invokedFile(consultedScript))
mainApplies == manifestRead /\ fs.pkg.main # "" /\ pathExists(fs, declaredMain)
scriptApplies == manifestRead /\ invokedFile(consultedScript) # "" /\ pathExists(fs, scriptMain)
ConventionalNames == <<"app.js", "server.js", "index.js", "main.js">>
ConventionalDirs == << <<>>, <<"src">>, <<"lib">> >>
\* position of dir/name in the search order: all names of a directory before the next directory
rank(d, n) == (d - 1) * Len(ConventionalNames) + n
conventionalAt(d, n) == pathExists(fs, Append(ConventionalDirs[d], ConventionalNames[n]))
nodeBuilt == returned /\ projectType = "nodejs" /\ result.success

\* C21: the Node.js entry point is (a) package.json's main when it names an existing path,
\* else (b) the file that 'node <file>' of the start script (the dev script when there is
\* no start script) names when it exists, else (c) the first existing of app.js,
\* server.js, index.js, main.js at the root, then under src/, then under lib/.
C21_NodeEntryOrder ==
  nodeBuilt =>
    IF mainApplies THEN result.output = pathString(declaredMain)
    ELSE IF scriptApplies THEN result.output = pathString(scriptMain)
    ELSE \A d \in 1..Len(ConventionalDirs), n \in 1..Len(ConventionalNames) :
           (/\ conventionalAt(d, n)
            /\ \A d2 \in 1..Len(ConventionalDirs), n2 \in 1..Len(ConventionalNames) :
                 rank(d2, n2) < rank(d, n) => ~conventionalAt(d2, n2))
             => result.output = pathString(Append(ConventionalDirs[d], ConventionalNames[n]))

\* C21 witness: main names a missing file, the start script has no 'node <file>', so the
\* list decides, and the root's server.js is taken before src/index.js
C21_Witness ==
  /\ nodeBuilt
  /\ manifestRead /\ fs.pkg.main = "gone.js" /\ fs.pkg.start = "nodemon app.js" /\ fs.pkg.dev # ""
  /\ isRegularFile(fs, <<"server.js">>) /\ isRegularFile(fs, <<"src", "index.js">>)
  /\ result.output = pathString(<<"server.js">>)

ScriptExtensions == {".js", ".mjs", ".cjs"}
ClientAssetDirs == {"public", "static", "assets", "css", "js"}
isScannedScript(e) == scanVisits(e.dir) /\ toLowerCase(extname(e.name)) \in ScriptExtensions
inClientAssets(e) == \E i \in 1..Len(e.dir) : toLowerCase(e.dir[i]) \in ClientAssetDirs
noConventionalEntry ==
  \A d \in 1..Len(ConventionalDirs), n \in 1..Len(ConventionalNames) : ~conventionalAt(d, n)
noServerIndicator ==
  \A e \in fs.files : (isScannedScript(e) /\ ~inClientAssets(e)) => fullPath(e) \notin fs.serverish
rootScripts == {e \in fs.files : e.dir = <<>> /\ isScannedScript(e)}
lastResort ==
  /\ nodeBuilt
  /\ ~mainApplies /\ ~scriptApplies /\ noConventionalEntry
  /\ noServerIndicator

\* C22 (as stated): when (a), (b), (c) found nothing and no script outside the client-asset
\* directories mentions a server indicator, the entry is a script file of the project
\* root whenever the root holds one; a file of a subdirectory is chosen only when the
\* root holds no script file.
C22_AsStated ==
  (lastResort /\ rootScripts # {}) =>
    \E e \in rootScripts : result.output = pathString(fullPath(e))

\* the steps of the stored container command, and where the run stage spawned and closed them
ContainerSteps == <<"docker build -t myapp .", "docker run -p 3000:3000 myapp">>
containerRun ==
  /\ pc \in {"done", "exited"} /\ projectType = "docker"
  /\ \E j \in 1..Len(events) :
       events[j].kind = "prompt" /\ events[j].what = "Build and run with Docker?"
         /\ events[j].outcome = "yes"
spawnsOf(k) == {i \in 1..Len(events) : events[i].kind = "spawn" /\ events[i].what = ContainerSteps[k]}
closesOf(k) == {i \in 1..Len(events) : events[i].kind = "close" /\ events[i].what = ContainerSteps[k]}
containerSpawns == {i \in 1..Len(events) : events[i].kind = "spawn" /\ startsWith(events[i].what, "docker ")}

\* C23: a confirmed container run spawns the steps of the stored command, split on ' && ',
\* once each and in their stored order, a step only after the step before it has closed;
\* a step that closes with a non-zero code is reported and the next step is spawned all
\* the same.
C23_ContainerStepsInOrder ==
  containerRun =>
    /\ result.executable = ContainerSteps[1] \o " && " \o ContainerSteps[2]
    /\ Cardinality(containerSpawns) = Len(ContainerSteps)
    /\ \A k \in 1..Len(ContainerSteps) :
         /\ Cardinality(spawnsOf(k)) = 1
         /\ Cardinality(closesOf(k)) = 1
         /\ \A i \in spawnsOf(k), c \in closesOf(k) : i < c
    /\ \A i \in spawnsOf(2), c \in closesOf(1) : c < i
    /\ \A c \in closesOf(1) \cup closesOf(2) :
         events[c].outcome # "0" =>
           /\ c < Len(events)
           /\ events[c + 1] = log("Docker command failed with code: " \o events[c].outcome)

\* C23 witness: the build step closed with code 1 and the run step was spawned after it
C23_Witness ==
  /\ containerRun
  /\ \E c \in closesOf(1), i \in spawnsOf(2) : events[c].outcome = "1" /\ c < i

\* the directories below the directory of the call that the lookup walked through to
\* reach what it found
walkedThrough == {result.found[k] : k \in (Len(result.dir) + 1)..(Len(result.found) - 1)}

\* C24 (as stated): findFileRecursive descends into the directories findFilesRecursive
\* descends into and no others: what it finds never lies below a hidden directory,
\* node_modules, build, target, dist or obj.
C24_AsStated ==
  (lookupReturned /\ result.found # nullPath) =>
    \A n \in walkedThrough : ~isExcludedName(n)

\* the call can read every directory from the one it was given down to dir
readableDown(dir) ==
  \A k \in Len(result.dir)..Len(dir) : SubSeq(dir, 1, k) \notin fs.denied

\* C25: a directory that cannot be read and a file that cannot be stat-ed count as holding
\* nothing: the scan returns, and findFilesRecursive gives exactly the matching files that
\* can be stat-ed and lie in the readable, non-excluded part of the tree;
\* findFileRecursive finds a name that occurs in a readable part the lookup walks into,
\* and what it finds lies in a readable part.
C25_ScanSurvivesFaults ==
  /\ pc = "returned" => ~threw
  /\ scanReturned =>
       \A e \in fs.files :
         isPrefix(result.dir, e.dir) =>
           (fullPath(e) \in resultPaths
              <=> /\ readableDown(e.dir) /\ fullPath(e) \notin fs.denied
                  /\ ~insideExcluded(result.dir, e)
                  /\ toLowerCase(extname(e.name)) \in result.extensions)
  /\ lookupReturned =>
       /\ (\E e \in fs.files :
             /\ isPrefix(result.dir, e.dir) /\ e.name = result.fileName
             /\ readableDown(e.dir) /\ lookupVisits(below(result.dir, e.dir)))
            => result.found # nullPath
       /\ result.found # nullPath =>
            /\ isRegularFile(fs, result.found) /\ basename(result.found) = result.fileName
            /\ readableDown(dirname(result.found))

\* C25 witness: src cannot be read; the scan from the root leaves out src/main.c and
\* still returns the root's main.c
C25_Witness ==
  /\ scanReturned /\ result.dir = <<>> /\ result.extensions = {".c"}
  /\ fs.denied = {<<"src">>}
  /\ isRegularFile(fs, <<"src", "main.c">>)
  /\ resultPaths = {<<"main.c">>}

\* the .py files found, in the order found, and the preferred words in a base name
pyFiles == findFilesRecursive(fs, <<>>, {".py"})
EntryWords == <<"main", "index", "app", "server">>
namedWith(k) == {i \in 1..Len(pyFiles) : includes(toLowerCase(basename(pyFiles[i])), EntryWords[k])}
firstOf(I) == CHOOSE i \in I : \A j \in I : i <= j
pythonBuilt == returned /\ projectType = "python"

\* C26: the Python entry is the first .py file found whose base name contains 'main'; with
\* none, the first containing 'index', then 'app', then 'server'; with no such name the
\* first file found; and with no .py file the build result has success = false.
C26_PythonEntry ==
  pythonBuilt =>
    IF Len(pyFiles) = 0 THEN result.success = FALSE
    ELSE /\ result.success
         /\ \A k \in 1..Len(EntryWords) :
              (namedWith(k) # {} /\ \A k2 \in 1..(k - 1) : namedWith(k2) = {})
                => result.output = pathString(pyFiles[firstOf(namedWith(k))])
         /\ (\A k \in 1..Len(EntryWords) : namedWith(k) = {}) => result.output = pathString(pyFiles[1])

\* C26 witness: a file named with 'server' is found before one named with 'index', and
\* the one with 'index' is the entry
C26_Witness ==
  /\ pythonBuilt /\ result.success
  /\ namedWith(1) = {}
  /\ \E i \in namedWith(4), j \in namedWith(2) : i < j /\ result.output = pathString(pyFiles[j])

ConventionDirs == {"src", "lib", "include", "source"}
NativeExtensions == {".c"} \cup CppExtensions
\* rules 1 to 4 matched nothing: the classifier goes on to the directory rule
reachesDirRule == rulesOneToThreeSilent /\ \A k \in Families : familyCount(k) = 0
nativeFilesUnder(d) == findFilesRecursive(fs, <<d>>, NativeExtensions)

C28_ManifestHidesReact ==
  /\ (pc = "classified" /\ occursVisibly("package.json")) =>
       /\ projectType # "react"
       /\ projectType \in {"rust", "go", "nodejs"}
  /\ (pc = "classified" /\ fs.files = ReactTemplate) => projectType = "nodejs"

\* C28 witness: the tree of the React template has been classified
C28_Witness ==
  /\ pc = "classified" /\ fs.files = ReactTemplate
  /\ occursVisibly("vite.config.js") /\ hasVisible({".jsx", ".tsx"}) /\ hasVisible({".html"})
  /\ projectType = "nodejs"

\* the commands of a dev-server or container run, and the project root as a string
projectRoot == pathString(<<>>)
isRootRunCommand(what) == what = "npm run dev" \/ startsWith(what, "docker ")
rootRunSpawns == {i \in 1..Len(events) : events[i].kind = "spawn" /\ isRootRunCommand(events[i].what)}

\* C29: the build result of a dev-server or container project has the project root as its
\* output, and 'npm run dev' and the docker steps are spawned with the parent directory
\* of the project root as working directory, never the project root.
C29_RunsInParentDirectory ==
  /\ (returned /\ result.success /\ projectType \in {"react", "docker"}) => result.output = projectRoot
  /\ \A i \in rootRunSpawns :
       /\ events[i].cwd # projectRoot
       /\ events[i].cwd \o basename(projectPath) = projectRoot

\* C29 witness: a confirmed dev-server run: 'npm run dev' spawned one level above the project
C29_Witness ==
  /\ pc = "done" /\ projectType = "react"
  /\ \E i \in rootRunSpawns : events[i].what = "npm run dev" /\ events[i].cwd = "/"

containerBuilt == pc \in {"run", "done", "exited"} /\ projectType = "docker" /\ mkdirDone
composeOnly == occursVisibly("docker-compose.yml") /\ ~occursVisibly("Dockerfile")

\* C30: the build of a container project succeeds exactly when a file named Dockerfile
\* lies where the lookup looks; a tree that is a container project through
\* docker-compose.yml alone gets success = false with 'No Dockerfile found', and no run
\* prompt follows.
C30_ContainerNeedsDockerfile ==
  containerBuilt =>
    /\ result.success <=> occursVisibly("Dockerfile")
    /\ ~occursVisibly("Dockerfile") =>
         /\ result.error = "No Dockerfile found"
         /\ \A j \in 1..Len(events) : ~runPromptAt(j)

\* C30 witness: docker-compose.yml alone made the project a container project, the build
\* failed and the run is over without a prompt
C30_Witness ==
  /\ containerBuilt /\ composeOnly /\ pc = "exited"
  /\ result = [success |-> FALSE, error |-> "No Dockerfile found"]
  /\ seqIncludes(events, log("Compilation failed!"))

====
